---- MODULE Spec2Model ----
(***************************************************************************)
(* A model of the log interpretation engine of the license dashboard      *)
(* (src/src/main.tsx): parseLogFile, taken one log line at a time.         *)
(*                                                                         *)
(* Text is modelled character by character: a string is a sequence of      *)
(* one-character strings, so that substring tests, the regular             *)
(* expressions and the string-built session key are computed as the code   *)
(* computes them.                                                          *)
(***************************************************************************)
EXTENDS Integers, Sequences, FiniteSets, TLC

VARIABLES
  n,              \* number of lines of the log consumed so far
  currentYear,    \* new Date().getFullYear() at the start of the parse
  currentDate,    \* running date string, '' until a TIMESTAMP date is seen
  entries,        \* LogEntry[]
  sessions,       \* Session[] (closed sessions)
  openSessions,   \* Record<string, Session>
  serverName, flexVersion, port, vendorPort, pid, logPath,   \* metadata
  data,           \* the DashboardData returned by parseLogFile: <<>> or <<d>>
  card,           \* the right-sizing card last rendered: <<>> or <<c>>
  isParsing,      \* the "Parsing..." indicator of the landing page
  loads,          \* the log loads requested so far, in the order of the requests
  optTimeoutEnabled, optTimeout,   \* TIMEOUTALL of the options file
  optFeatureTimeouts,              \* { feature, seconds }[]
  optGroups,                       \* { name, users }[]
  optRules,                        \* the MAX / RESERVE / INCLUDE / EXCLUDE rules
  customUsers                      \* user names typed in or imported, not seen in the log

\* the state of the load indicator and of the options tab
loadVars == <<isParsing, loads>>
optVars == <<optTimeoutEnabled, optTimeout, optFeatureTimeouts, optGroups,
             optRules, customUsers>>

\* the state of one parse
parseVars == <<n, currentYear, currentDate, entries, sessions, openSessions,
               serverName, flexVersion, port, vendorPort, pid, logPath>>

vars == <<n, currentYear, currentDate, entries, sessions, openSessions,
          serverName, flexVersion, port, vendorPort, pid, logPath, data, card,
          isParsing, loads, optTimeoutEnabled, optTimeout, optFeatureTimeouts,
          optGroups, optRules, customUsers>>

\* useState(3600) of optTimeout, and the value parseInt falls back to
DefaultTimeout == 3600

\* Bounds of the model.
MaxLines == 4
MaxKindLines == 2
MaxMetaLines == 3
MaxUsage == 3
MaxRollup == 4
MaxSeats == 5

\* Characters and character classes.
Digits == <<"0", "1", "2", "3", "4", "5", "6", "7", "8", "9">>
UpperSeq == <<"A","B","C","D","E","F","G","H","I","J","K","L","M",
              "N","O","P","Q","R","S","T","U","V","W","X","Y","Z">>
LowerSeq == <<"a","b","c","d","e","f","g","h","i","j","k","l","m",
              "n","o","p","q","r","s","t","u","v","w","x","y","z">>

Range(f) == {f[i] : i \in DOMAIN f}
Digit == Range(Digits)                                  \* \d
Space == {" ", "\t"}                                    \* \s
WordChar == Range(UpperSeq) \cup Range(LowerSeq) \cup Digit \cup {"_"}   \* \w
DaemonChar == WordChar \cup Space \cup {".", "-"}       \* [\w\s.-]
Quote == "\""

Min(S) == CHOOSE x \in S : \A y \in S : x <= y
Max(S) == CHOOSE x \in S : \A y \in S : x >= y

\* s[i], or "" (no character) outside the string
At(s, i) == IF i \in 1..Len(s) THEN s[i] ELSE ""

\* the literal lit occurs in s at index i
StartsAt(s, i, lit) ==
  /\ i >= 1
  /\ i + Len(lit) - 1 <= Len(s)
  /\ \A k \in 1..Len(lit) : s[i + k - 1] = lit[k]

\* String.prototype.includes
includes(s, lit) == \E i \in 1..Len(s) : StartsAt(s, i, lit)

\* last index of the maximal run of characters of class C that starts at i
\* (i - 1 when the run is empty): a greedy C*
RunIn(s, i, C) ==
  LET stops == {j \in i..Len(s) : s[j] \notin C}
  IN  IF stops = {} THEN Max({Len(s), i - 1}) ELSE Min(stops) - 1

\* the same for the complement class [^C]
RunNotIn(s, i, C) ==
  LET stops == {j \in i..Len(s) : s[j] \in C}
  IN  IF stops = {} THEN Max({Len(s), i - 1}) ELSE Min(stops) - 1

LowerChar(c) ==
  IF \E k \in 1..26 : UpperSeq[k] = c
  THEN LowerSeq[CHOOSE k \in 1..26 : UpperSeq[k] = c]
  ELSE c

\* String.prototype.toLowerCase
toLowerCase(s) == [i \in 1..Len(s) |-> LowerChar(s[i])]

\* String.prototype.trim
trim(s) ==
  LET keep == {i \in 1..Len(s) : s[i] \notin Space}
  IN  IF keep = {} THEN <<>> ELSE SubSeq(s, Min(keep), Max(keep))

NoMatch == [ok |-> FALSE]

\* line.match(/^\s*(\d{1,2}:\d{2}:\d{2})\s+\(([\w\s.-]+)\)\s+(.*)$/)
timeMatch(line) ==
  LET a  == RunIn(line, 1, Space) + 1              \* ^\s*
      h  == RunIn(line, a, Digit) - a + 1          \* leading digits
      b  == a + (IF h >= 2 THEN 2 ELSE h)          \* \d{1,2}
      c  == b + 6                                  \* after :\d{2}:\d{2}
      d  == RunIn(line, c, Space) + 1              \* \s+
      e  == RunIn(line, d + 1, DaemonChar)         \* [\w\s.-]+
      f  == e + 2
      g  == RunIn(line, f, Space) + 1              \* \s+
  IN  IF /\ h >= 1
         /\ At(line, b) = ":"
         /\ At(line, b + 1) \in Digit /\ At(line, b + 2) \in Digit
         /\ At(line, b + 3) = ":"
         /\ At(line, b + 4) \in Digit /\ At(line, b + 5) \in Digit
         /\ d > c
         /\ At(line, d) = "("
         /\ e >= d + 1
         /\ At(line, e + 1) = ")"
         /\ g > f
      THEN [ok |-> TRUE,
            time |-> SubSeq(line, a, b + 5),
            daemon |-> SubSeq(line, d + 1, e),
            message |-> SubSeq(line, g, Len(line))]
      ELSE NoMatch

\* message.match(/(\d{1,2}\/\d{1,2}\/\d{4})/)
DateEndAt(s, i) ==            \* end of a match that starts at i, 0 if none
  LET j == i + (IF At(s, i + 1) \in Digit THEN 2 ELSE 1)
      k == j + 1 + (IF At(s, j + 2) \in Digit THEN 2 ELSE 1)
  IN  IF /\ At(s, i) \in Digit
         /\ At(s, j) = "/"
         /\ At(s, j + 1) \in Digit
         /\ At(s, k) = "/"
         /\ \A q \in 1..4 : At(s, k + q) \in Digit
      THEN k + 4 ELSE 0

dateMatch(s) ==
  LET starts == {i \in 1..Len(s) : DateEndAt(s, i) > 0}
  IN  IF starts = {} THEN NoMatch
      ELSE [ok |-> TRUE, g1 |-> SubSeq(s, Min(starts), DateEndAt(s, Min(starts)))]

\* message.match(/v(\d+\.\d+\.\d+\.\d+)/)
VersionEndAt(s, i) ==         \* i is the index of the 'v'
  LET e1 == RunIn(s, i + 1, Digit)
      e2 == RunIn(s, e1 + 2, Digit)
      e3 == RunIn(s, e2 + 2, Digit)
      e4 == RunIn(s, e3 + 2, Digit)
  IN  IF /\ At(s, i) = "v"
         /\ e1 >= i + 1 /\ At(s, e1 + 1) = "."
         /\ e2 >= e1 + 2 /\ At(s, e2 + 1) = "."
         /\ e3 >= e2 + 2 /\ At(s, e3 + 1) = "."
         /\ e4 >= e3 + 2
      THEN e4 ELSE 0

vMatch(s) ==
  LET starts == {i \in 1..Len(s) : VersionEndAt(s, i) > 0}
  IN  IF starts = {} THEN NoMatch
      ELSE [ok |-> TRUE,
            g1 |-> SubSeq(s, Min(starts) + 1, VersionEndAt(s, Min(starts)))]

\* s.match(/<lit>(C+)/): the leftmost lit that a character of the class
\* follows, and the greedy run captured after it.  Serves /port (\d+)/,
\* /pid (\d+)/, /started on (\S+)/ and /Server started on (\S+)/.
digitsAfter(s, lit) ==
  LET starts == {i \in 1..Len(s) :
                   StartsAt(s, i, lit) /\ At(s, i + Len(lit)) \in Digit}
      p == Min(starts) + Len(lit)
  IN  IF starts = {} THEN NoMatch
      ELSE [ok |-> TRUE, g1 |-> SubSeq(s, p, RunIn(s, p, Digit))]

nonSpaceAfter(s, lit) ==
  LET starts == {i \in 1..Len(s) :
                   /\ StartsAt(s, i, lit)
                   /\ i + Len(lit) <= Len(s)
                   /\ At(s, i + Len(lit)) \notin Space}
      p == Min(starts) + Len(lit)
  IN  IF starts = {} THEN NoMatch
      ELSE [ok |-> TRUE, g1 |-> SubSeq(s, p, RunNotIn(s, p, Space))]

\* s.match(/<marker>\s+"?([^"\s]+)"?\s+(\S+)@(\S+)/) for the markers OUT: and
\* IN:, and the feature part of it for UNSUPPORTED:.  FeatAt gives the
\* feature captured after a marker that ends right before index p.
FeatAt(s, p) ==
  LET q  == RunIn(s, p, Space) + 1                      \* \s+
      q2 == IF At(s, q) = Quote THEN q + 1 ELSE q       \* "?
      r  == RunNotIn(s, q2, Space \cup {Quote})         \* [^"\s]+
  IN  IF q > p /\ r >= q2
      THEN [ok |-> TRUE, from |-> q2, to |-> r]
      ELSE NoMatch

\* the token (\S+)@(\S+) that starts at t: the user is greedy, so the split is
\* at the last '@' that leaves a non-empty host
UserHostAt(s, t) ==
  LET ats == {a \in (t + 1)..(RunNotIn(s, t, Space) - 1) : s[a] = "@"}
  IN  IF ats = {} THEN NoMatch
      ELSE [ok |-> TRUE, from |-> t, at |-> Max(ats), to |-> RunNotIn(s, t, Space)]

PartsToken(s, ft, uh) ==
  IF uh.ok
  THEN [ok |-> TRUE,
        feature |-> SubSeq(s, ft.from, ft.to),
        user |-> SubSeq(s, uh.from, uh.at - 1),
        host |-> SubSeq(s, uh.at + 1, uh.to),
        to |-> uh.to]
  ELSE NoMatch

\* r2 is the index after the feature and its optional closing quote
PartsSpace(s, ft, r2) ==
  IF At(s, r2) \in Space                                            \* \s+
  THEN PartsToken(s, ft, UserHostAt(s, RunIn(s, r2, Space) + 1))
  ELSE NoMatch

PartsFeature(s, ft) ==
  IF ft.ok
  THEN PartsSpace(s, ft, IF At(s, ft.to + 1) = Quote THEN ft.to + 2 ELSE ft.to + 1)
  ELSE NoMatch

PartsAt(s, i, marker) ==
  IF StartsAt(s, i, marker)
  THEN PartsFeature(s, FeatAt(s, i + Len(marker)))
  ELSE NoMatch

partsMatch(s, marker) ==
  LET starts == {i \in 1..Len(s) : PartsAt(s, i, marker).ok}
  IN  IF starts = {} THEN NoMatch ELSE PartsAt(s, Min(starts), marker)

\* message.match(/DENIED:\s+"?([^"\s]+)"?\s+(\S+)@(\S+)\s+\((.*)\)/)
\* (.*) is greedy: the reason runs to the last ')' of the message
LastClose(s, v) ==
  LET cl == {w \in (v + 1)..Len(s) : s[w] = ")"}
  IN  IF cl = {} THEN 0 ELSE Max(cl)

\* v is the index after the host and the \s+ that follows it
DeniedReason(s, pm, v) ==
  IF v > pm.to + 1 /\ At(s, v) = "(" /\ LastClose(s, v) > 0
  THEN [ok |-> TRUE, feature |-> pm.feature, user |-> pm.user,
        host |-> pm.host, reason |-> SubSeq(s, v + 1, LastClose(s, v) - 1)]
  ELSE NoMatch

DeniedParts(s, pm) ==
  IF pm.ok THEN DeniedReason(s, pm, RunIn(s, pm.to + 1, Space) + 1) ELSE NoMatch

DeniedAt(s, i) == DeniedParts(s, PartsAt(s, i, <<"D","E","N","I","E","D",":">>))

deniedMatch(s) ==
  LET starts == {i \in 1..Len(s) : DeniedAt(s, i).ok}
  IN  IF starts = {} THEN NoMatch ELSE DeniedAt(s, Min(starts))

\* message.match(/UNSUPPORTED:\s+"?([^"\s]+)"?/)
unsupportedMatch(s) ==
  LET lit == <<"U","N","S","U","P","P","O","R","T","E","D",":">>
      starts == {i \in 1..Len(s) : StartsAt(s, i, lit) /\ FeatAt(s, i + Len(lit)).ok}
      ft == FeatAt(s, Min(starts) + Len(lit))
  IN  IF starts = {} THEN NoMatch
      ELSE [ok |-> TRUE, feature |-> SubSeq(s, ft.from, ft.to)]

\* line.match(/^\s*[\d:]+\s+(\S+)\s+\(lmgrd\)/) || message.match(/^(\S+)'s Server nodeid/)
hMatch(line, message) ==
  LET a  == RunIn(line, 1, Space) + 1
      b  == RunIn(line, a, Digit \cup {":"})                  \* [\d:]+
      c  == RunIn(line, b + 1, Space) + 1                     \* \s+
      d  == RunNotIn(line, c, Space)                          \* (\S+)
      e  == RunIn(line, d + 1, Space) + 1                     \* \s+
      tail == <<"'","s"," ","S","e","r","v","e","r"," ","n","o","d","e","i","d">>
      tok == RunNotIn(message, 1, Space)
      ks == {k \in 1..tok : StartsAt(message, k + 1, tail)}
  IN  IF /\ b >= a /\ c > b + 1 /\ d >= c /\ e > d + 1
         /\ StartsAt(line, e, <<"(","l","m","g","r","d",")">>)
      THEN [ok |-> TRUE, g1 |-> SubSeq(line, c, d)]
      ELSE IF ks # {} THEN [ok |-> TRUE, g1 |-> SubSeq(message, 1, Max(ks))]
      ELSE NoMatch

\* message.match(/:(.*)/)
colonMatch(s) ==
  LET cs == {i \in 1..Len(s) : s[i] = ":"}
  IN  IF cs = {} THEN NoMatch
      ELSE [ok |-> TRUE, g1 |-> SubSeq(s, Min(cs) + 1, Len(s))]

\* The literals the interpreter looks for.
TIMESTAMP_LIT == <<"T","I","M","E","S","T","A","M","P">>
FLEXNET_LIT == <<"F","L","E","X","n","e","t"," ","L","i","c","e","n","s","i","n","g">>
OUT_LIT == <<"O","U","T",":">>
IN_LIT == <<"I","N",":">>
DENIED_LIT == <<"D","E","N","I","E","D",":">>
UNSUPPORTED_LIT == <<"U","N","S","U","P","P","O","R","T","E","D">>
RESERVING_LIT == <<"R","E","S","E","R","V","I","N","G">>
ERROR_LIT == <<"e","r","r","o","r">>
EXITING_LIT == <<"E","X","I","T","I","N","G">>
LMGRD == <<"l","m","g","r","d">>
Unknown == <<"U","n","k","n","o","w","n">>

\* Decimal numerals.
RECURSIVE parseNum(_)
parseNum(s) ==
  IF s = <<>> THEN 0
  ELSE 10 * parseNum(SubSeq(s, 1, Len(s) - 1))
       + (CHOOSE v \in 0..9 : Digits[v + 1] = s[Len(s)])

\* '' + currentYear, for a year of four digits
yearString(y) ==
  <<Digits[((y \div 1000) % 10) + 1], Digits[((y \div 100) % 10) + 1],
    Digits[((y \div 10) % 10) + 1], Digits[(y % 10) + 1]>>

\* Days from 1970-01-01 to the civil date y-m-d; linear in d, so a day past
\* the end of the month rolls over into the next month as MakeDay does.
daysFromCivil(y, m, d) ==
  LET yy  == IF m <= 2 THEN y - 1 ELSE y
      era == yy \div 400
      yoe == yy - era * 400
      mp  == (m + 9) % 12
      doy == (153 * mp + 2) \div 5 + d - 1
      doe == yoe * 365 + yoe \div 4 - yoe \div 100 + doy
  IN  era * 146097 + doe - 719468

\* new Date(str) for str of the shape 'M/D/YYYY H:MM:SS' (legacy date parser,
\* local time).  The value is [nan, t]: t is getTime() / 1000, and nan says
\* that the date is invalid (getTime() is NaN).
NaNDate == [nan |-> TRUE, t |-> 0]

newDate(str) ==
  LET sl  == {i \in 1..Len(str) : str[i] = "/"}
      sp  == Min({i \in 1..Len(str) : str[i] = " "})
      co  == {i \in 1..Len(str) : str[i] = ":"}
      mo  == parseNum(SubSeq(str, 1, Min(sl) - 1))
      dd  == parseNum(SubSeq(str, Min(sl) + 1, Max(sl) - 1))
      y0  == parseNum(SubSeq(str, Max(sl) + 1, sp - 1))
      yr  == IF y0 <= 49 THEN y0 + 2000 ELSE IF y0 <= 99 THEN y0 + 1900 ELSE y0
      hh  == parseNum(SubSeq(str, sp + 1, Min(co) - 1))
      mi  == parseNum(SubSeq(str, Min(co) + 1, Max(co) - 1))
      ss  == parseNum(SubSeq(str, Max(co) + 1, Len(str)))
  IN  IF /\ mo \in 1..12 /\ dd \in 1..31
         /\ mi <= 59 /\ ss <= 59
         /\ (hh <= 23 \/ (hh = 24 /\ mi = 0 /\ ss = 0))
      THEN [nan |-> FALSE,
            t |-> daysFromCivil(yr, mo, dd) * 86400 + hh * 3600 + mi * 60 + ss]
      ELSE NaNDate

\* new Date(`${currentDate || '1/1/' + currentYear} ${time}`)
stamp(curDate, curYear, time) ==
  newDate((IF curDate # <<>> THEN curDate ELSE <<"1","/","1","/">> \o yearString(curYear))
          \o <<" ">> \o time)

\* (endTime.getTime() - session.start.getTime()) / 60000, kept exact: the
\* value is [nan, v] with v the duration in sixtieths of a minute.
durationOf(start, end) ==
  IF start.nan \/ end.nan THEN [nan |-> TRUE, v |-> 0]
  ELSE [nan |-> FALSE, v |-> end.t - start.t]

\* session.duration >= 0 (false for NaN)
durationOk(d) == ~d.nan /\ d.v >= 0

\* ------------------------------------------------------------------------
\* The event interpreter: the body of lines.forEach in parseLogFile.
\* What a line holds is computed first (the matches, which read no state);
\* the assignments to the running state follow in ParseLine.
\* ------------------------------------------------------------------------

\* faulty variant: the date is taken from any line that holds one
dateInAnyLine(message) == dateMatch(message)

\* if (message.includes('TIMESTAMP')) { dateMatch = ... }
dateIn(message) ==
  IF includes(message, TIMESTAMP_LIT) THEN dateMatch(message) ELSE NoMatch

\* if (message.includes('FLEXnet Licensing')) { vMatch = ... }
versionIn(message) ==
  IF includes(message, FLEXNET_LIT) THEN vMatch(message) ELSE NoMatch

\* if (daemon.toLowerCase() === 'lmgrd' && message.includes('on port')) { pMatch = ... }
portIn(daemon, message) ==
  IF toLowerCase(daemon) = LMGRD /\ includes(message, <<"o","n"," ","p","o","r","t">>)
  THEN digitsAfter(message, <<"p","o","r","t"," ">>) ELSE NoMatch

\* if (message.includes('serving licenses on port')) { vpMatch = ... }
vendorPortIn(message) ==
  IF includes(message, <<"s","e","r","v","i","n","g"," ","l","i","c","e","n","s","e","s"," ","o","n"," ","p","o","r","t">>)
  THEN digitsAfter(message, <<"p","o","r","t"," ">>) ELSE NoMatch

\* the three server-name rules
nodeidIn(line, daemon, message) ==
  IF /\ toLowerCase(daemon) = LMGRD
     /\ (includes(message, <<"S","e","r","v","e","r","'","s"," ","n","o","d","e","i","d">>) \/ includes(message, <<"S","e","r","v","e","r"," ","n","o","d","e","i","d">>))
  THEN hMatch(line, message) ELSE NoMatch

startedOnIn(daemon, message) ==
  IF includes(message, <<"s","t","a","r","t","e","d"," ","o","n">>) /\ toLowerCase(daemon) = LMGRD
  THEN nonSpaceAfter(message, <<"s","t","a","r","t","e","d"," ","o","n"," ">>) ELSE NoMatch

serverStartedIn(message) ==
  IF includes(message, <<"S","e","r","v","e","r"," ","s","t","a","r","t","e","d"," ","o","n">>)
  THEN nonSpaceAfter(message, <<"S","e","r","v","e","r"," ","s","t","a","r","t","e","d"," ","o","n"," ">>) ELSE NoMatch

\* if (message.includes('license file(s)')) { dMatch = ... }: dMatch[1].trim()
logPathIn(message) ==
  IF includes(message, <<"l","i","c","e","n","s","e"," ","f","i","l","e","(","s",")">>) /\ colonMatch(message).ok
  THEN [ok |-> TRUE, g1 |-> trim(colonMatch(message).g1)] ELSE NoMatch

\* if (message.includes('pid')) { pidMatch = ... }
pidIn(message) ==
  IF includes(message, <<"p","i","d">>) THEN digitsAfter(message, <<"p","i","d"," ">>) ELSE NoMatch

\* faulty variant: the assignment is guarded by x === 'Unknown'
assignFirst(cur, m) == IF cur = Unknown /\ m.ok THEN m.g1 ELSE cur

\* if (m) x = m[1]: the assignment every metadata field and the running date
\* get from their match
assign(cur, m) == IF m.ok THEN m.g1 ELSE cur

\* the same under the guard serverName === 'Unknown'
assignIfUnknown(cur, m) == IF cur = Unknown /\ m.ok THEN m.g1 ELSE cur

\* faulty variant: the IN: branch is tested before the OUT: branch
entryTypeInFirst(message) ==
  LET t0 == IF includes(message, TIMESTAMP_LIT) THEN "TIMESTAMP" ELSE "INFO"
      t1 == IF includes(message, FLEXNET_LIT) THEN "VERSION" ELSE t0
  IN  IF includes(message, IN_LIT) THEN "IN"
      ELSE IF includes(message, OUT_LIT) THEN "OUT"
      ELSE IF includes(message, DENIED_LIT) THEN "DENIED"
      ELSE IF includes(message, UNSUPPORTED_LIT) THEN "UNSUPPORTED"
      ELSE IF includes(message, RESERVING_LIT) THEN "RESERVING"
      ELSE IF includes(toLowerCase(message), ERROR_LIT) \/ includes(message, EXITING_LIT)
           THEN "ERROR"
      ELSE t1

\* faulty variant: the version block comes before the TIMESTAMP block
entryTypeVersionFirst(message) ==
  LET t0 == IF includes(message, FLEXNET_LIT) THEN "VERSION" ELSE "INFO"
      t1 == IF includes(message, TIMESTAMP_LIT) THEN "TIMESTAMP" ELSE t0
  IN  IF includes(message, OUT_LIT) THEN "OUT"
      ELSE IF includes(message, IN_LIT) THEN "IN"
      ELSE IF includes(message, DENIED_LIT) THEN "DENIED"
      ELSE IF includes(message, UNSUPPORTED_LIT) THEN "UNSUPPORTED"
      ELSE IF includes(message, RESERVING_LIT) THEN "RESERVING"
      ELSE IF includes(toLowerCase(message), ERROR_LIT) \/ includes(message, EXITING_LIT)
           THEN "ERROR"
      ELSE t1

\* entry.type once the line is interpreted: 'INFO', then the TIMESTAMP and
\* version assignments, then the if / else-if cascade of event types
entryType(message) ==
  LET t0 == IF includes(message, TIMESTAMP_LIT) THEN "TIMESTAMP" ELSE "INFO"
      t1 == IF includes(message, FLEXNET_LIT) THEN "VERSION" ELSE t0
  IN  IF includes(message, OUT_LIT) THEN "OUT"
      ELSE IF includes(message, IN_LIT) THEN "IN"
      ELSE IF includes(message, DENIED_LIT) THEN "DENIED"
      ELSE IF includes(message, UNSUPPORTED_LIT) THEN "UNSUPPORTED"
      ELSE IF includes(message, RESERVING_LIT) THEN "RESERVING"
      ELSE IF includes(toLowerCase(message), ERROR_LIT) \/ includes(message, EXITING_LIT)
           THEN "ERROR"
      ELSE t1

\* the sub-pattern match of the branch taken for this type
partsOf(type, message) ==
  IF type = "OUT" THEN partsMatch(message, OUT_LIT)
  ELSE IF type = "IN" THEN partsMatch(message, IN_LIT)
  ELSE IF type = "DENIED" THEN deniedMatch(message)
  ELSE IF type = "UNSUPPORTED" THEN unsupportedMatch(message)
  ELSE NoMatch

\* The LogEntry built for a line that matched timeMatch, before its date is
\* attached.  A field the code leaves undefined is <<>> (the captures are
\* never empty); reason, which may be captured empty, is <<>> when undefined
\* and <<text>> when set.
entryWith(line, tm, type, parts) ==
  [time |-> tm.time, date |-> <<>>, daemon |-> tm.daemon, type |-> type,
   feature |-> IF parts.ok THEN parts.feature ELSE <<>>,
   user |-> IF parts.ok /\ type # "UNSUPPORTED" THEN parts.user ELSE <<>>,
   host |-> IF parts.ok /\ type # "UNSUPPORTED" THEN parts.host ELSE <<>>,
   reason |-> IF parts.ok /\ type = "DENIED" THEN <<parts.reason>> ELSE <<>>,
   raw |-> line]

entryOfType(line, tm, type) == entryWith(line, tm, type, partsOf(type, tm.message))

makeEntry(line, tm) == entryOfType(line, tm, entryType(tm.message))

\* everything the loop body reads off one line; tm is its timeMatch
factsOf(line, tm) ==
  IF ~tm.ok THEN NoMatch
  ELSE [ok |-> TRUE,
        time |-> tm.time,
        message |-> tm.message,
        entry |-> makeEntry(line, tm),
        date |-> dateIn(tm.message),
        version |-> versionIn(tm.message),
        port |-> portIn(tm.daemon, tm.message),
        vendorPort |-> vendorPortIn(tm.message),
        nodeid |-> nodeidIn(line, tm.daemon, tm.message),
        startedOn |-> startedOnIn(tm.daemon, tm.message),
        serverStarted |-> serverStartedIn(tm.message),
        logPath |-> logPathIn(tm.message),
        pid |-> pidIn(tm.message)]

lineFacts(line) == factsOf(line, timeMatch(line))

\* ------------------------------------------------------------------------
\* The session reconciler.
\* ------------------------------------------------------------------------

\* faulty variant: the key omits the feature
sessionKeyNoFeature(entry) == entry.user \o <<"@">> \o entry.host

\* `${entry.user}@${entry.host}:${entry.feature}`
sessionKey(entry) == entry.user \o <<"@">> \o entry.host \o <<":">> \o entry.feature

\* faulty variant: a checkout of a key that is already open is ignored
openAfterOutKeepFirst(open, entry, start) ==
  [k \in DOMAIN open \cup {entry.user \o <<"@">> \o entry.host \o <<":">> \o entry.feature} |->
     IF k \in DOMAIN open THEN open[k]
     ELSE [user |-> entry.user, host |-> entry.host,
           feature |-> entry.feature, start |-> start]]

\* faulty variant: the open entry is not deleted
openAfterInKeep(open, entry) == open

\* openSessions[key] = { user, host, feature, start }
openAfterOut(open, entry, start) ==
  [k \in DOMAIN open \cup {sessionKey(entry)} |->
     IF k = sessionKey(entry)
     THEN [user |-> entry.user, host |-> entry.host,
           feature |-> entry.feature, start |-> start]
     ELSE open[k]]

\* delete openSessions[key], inside if (openSessions[key])
openAfterIn(open, entry) ==
  [k \in DOMAIN open \ {sessionKey(entry)} |-> open[k]]

\* the session closed by an IN whose key is open, with end and duration set
closedSession(open, entry, end) ==
  LET s == open[sessionKey(entry)]
  IN  [user |-> s.user, host |-> s.host, feature |-> s.feature,
       start |-> s.start, end |-> end, duration |-> durationOf(s.start, end)]

\* faulty variant: the session is pushed whatever its duration
sessionsAfterInAlways(done, open, entry, end) ==
  Append(done, closedSession(open, entry, end))

\* sessions after an IN whose key is open: pushed if (session.duration >= 0)
sessionsAfterIn(done, open, entry, end) ==
  IF durationOk(closedSession(open, entry, end).duration)
  THEN Append(done, closedSession(open, entry, end))
  ELSE done

\* faulty variant: the session tracking runs outside if (parts)
resolvedAlways(entry) == TRUE

\* if (parts): the sub-pattern matched, so feature, user and host are set
resolved(entry) == entry.user # <<>>

\* ------------------------------------------------------------------------
\* The logs the model reads: lines drawn from small sets.
\* ------------------------------------------------------------------------
Line(time, daemon, message) == time \o <<" ", "(">> \o daemon \o <<")", " ">> \o message

T0900 == <<"9",":","0","0",":","0","0">>
T1000 == <<"1","0",":","0","0",":","0","0">>
T1130 == <<"1","1",":","3","0",":","1","5">>
TBad  == <<"2","5",":","0","0",":","0","0">>
SW_D == <<"S","W","_","D">>

\* Checkouts and returns of one key at several times, a second key whose
\* host holds ':' and a third whose feature holds ':', a date, and lines that
\* are skipped or only partly matched.
SessionLines ==
  { Line(T0900, SW_D, <<"O","U","T",":"," ","\"","s","w","x","\""," ","a","l","@","W","1">>),
    Line(T1000, SW_D, <<"O","U","T",":"," ","\"","s","w","x","\""," ","a","l","@","W","1">>),
    Line(TBad,  SW_D, <<"O","U","T",":"," ","\"","s","w","x","\""," ","a","l","@","W","1">>),
    Line(T0900, SW_D, <<"I","N",":"," ","\"","s","w","x","\""," ","a","l","@","W","1">>),
    Line(T1130, SW_D, <<"I","N",":"," ","s","w","x"," ","a","l","@","W","1">>),
    Line(T1000, SW_D, <<"O","U","T",":"," ","\"","f","\""," ","u","@","h",":","x">>),
    Line(T1130, SW_D, <<"I","N",":"," ","\"","x",":","f","\""," ","u","@","h">>),
    Line(T0900, SW_D, <<"T","I","M","E","S","T","A","M","P"," ","6","/","2","/","2","0","2","4">>),
    Line(T1000, SW_D, <<"O","U","T",":"," ","\"","s","w","x","\"">>),
    Line(T1130, SW_D, <<"I","N",":"," ","\"","c","a","e","\""," ","a","l","@","W","1">>),
    <<"-","-"," ","b","a","n","n","e","r"," ","-","-">> }

\* One line for every kind, and lines in which several markers occur.
KindLines ==
  { Line(T1000, SW_D, <<"T","I","M","E","S","T","A","M","P"," ","6","/","1","/","2","0","2","4">>),
    Line(T1000, SW_D, <<"T","I","M","E","S","T","A","M","P"," ","6","/","1","/","2","0","2","4"," ","e","r","r","o","r">>),
    Line(T1000, SW_D, <<"T","I","M","E","S","T","A","M","P"," ","O","U","T",":"," ","\"","s","w","x","\""," ","a","l","@","W","1">>),
    Line(T1000, LMGRD, <<"F","L","E","X","n","e","t"," ","L","i","c","e","n","s","i","n","g"," ","(","v","1","1",".","1","8",".","2",".","0",")"," ","s","t","a","r","t","e","d"," ","o","n"," ","S","1">>),
    Line(T1000, LMGRD, <<"F","L","E","X","n","e","t"," ","L","i","c","e","n","s","i","n","g"," ","e","r","r","o","r",":","-","1","5",",","5","7","0">>),
    Line(T1000, LMGRD, <<"T","I","M","E","S","T","A","M","P"," ","F","L","E","X","n","e","t"," ","L","i","c","e","n","s","i","n","g">>),
    Line(T1000, SW_D, <<"O","U","T",":"," ","\"","s","w","x","\""," ","a","l","@","W","1">>),
    Line(T1000, SW_D, <<"T","I","M","E","O","U","T",":"," ","\"","s","w","x","\""," ","a","l","@","W","1">>),
    Line(T1000, SW_D, <<"O","U","T",":"," ","s","w","x"," ","a","l">>),
    Line(T1000, SW_D, <<"I","N",":"," ","\"","s","w","x","\""," ","a","l","@","W","1">>),
    Line(T1000, SW_D, <<"I","N",":"," ","\"","s","w","x","\""," ","a","l","@","W","1"," ","(","O","U","T",":"," ","e","r","r","o","r",")">>),
    Line(T1000, SW_D, <<"I","N",":"," ","s","w","x">>),
    Line(T1000, SW_D, <<"D","E","N","I","E","D",":"," ","\"","s","w","x","\""," ","a","l","@","W","1"," ","(","N","o"," ","s","e","a","t","s"," ","(","-","4",",","3","4","2",")",")">>),
    Line(T1000, SW_D, <<"D","E","N","I","E","D",":"," ","\"","s","w","x","\""," ","a","l","@","W","1">>),
    Line(T1000, SW_D, <<"D","E","N","I","E","D",":"," ","\"","s","w","x","\""," ","a","l","@","W","1"," ","(","L","O","G","I","N",":"," ","f","a","i","l","e","d",")">>),
    Line(T1000, SW_D, <<"U","N","S","U","P","P","O","R","T","E","D",":"," ","\"","s","w","x","\""," ","(","R","E","S","E","R","V","I","N","G"," ","e","r","r","o","r",")">>),
    Line(T1000, SW_D, <<"U","N","S","U","P","P","O","R","T","E","D">>),
    Line(T1000, SW_D, <<"R","E","S","E","R","V","I","N","G"," ","1"," ","s","w","x"," ","l","i","c","e","n","s","e",","," ","E","X","I","T","I","N","G">>),
    Line(T1000, SW_D, <<"E","r","r","o","r"," ","g","e","t","t","i","n","g"," ","e","t","h","e","r","n","e","t"," ","a","d","d","r","e","s","s">>),
    Line(T1000, LMGRD, <<"E","X","I","T","I","N","G"," ","D","U","E"," ","T","O"," ","S","I","G","N","A","L"," ","1","5">>),
    Line(T1000, SW_D, <<"S","e","r","v","e","r"," ","s","t","a","r","t","e","d"," ","o","n"," ","S","1"," ","f","o","r",":"," ","s","w","x">>),
    <<"P","l","e","a","s","e"," ","N","o","t","e",":">> }

\* Lines that carry the metadata fields and dates, each field twice.
MetaLines ==
  { Line(T0900, LMGRD, <<"F","L","E","X","n","e","t"," ","L","i","c","e","n","s","i","n","g"," ","(","v","1","1",".","1","8",".","2",".","0",")"," ","s","t","a","r","t","e","d"," ","o","n"," ","S","1">>),
    Line(T0900, LMGRD, <<"F","L","E","X","n","e","t"," ","L","i","c","e","n","s","i","n","g"," ","(","v","1","1",".","1","9",".","0",".","0",")"," ","s","t","a","r","t","e","d"," ","o","n"," ","S","2"," ","(","5","/","3","0","/","2","0","2","4",")">>),
    Line(T0900, LMGRD, <<"F","L","E","X","n","e","t"," ","L","i","c","e","n","s","i","n","g">>),
    Line(T0900, LMGRD, <<"l","m","g","r","d"," ","s","t","a","r","t","e","d"," ","o","n"," ","p","o","r","t"," ","2","7","0","0","0">>),
    Line(T0900, LMGRD, <<"l","i","s","t","e","n","i","n","g"," ","o","n"," ","p","o","r","t"," ","2","5","7","3","4">>),
    Line(T0900, SW_D, <<"s","e","r","v","i","n","g"," ","l","i","c","e","n","s","e","s"," ","o","n"," ","p","o","r","t"," ","2","5","7","3","5">>),
    Line(T0900, SW_D, <<"s","e","r","v","i","n","g"," ","l","i","c","e","n","s","e","s"," ","o","n"," ","p","o","r","t"," ","1">>),
    Line(T0900, LMGRD, <<"S","t","a","r","t","e","d"," ","S","W","_","D"," ","(","t","c","p","_","p","o","r","t"," ","2","5","7","3","5"," ","p","i","d"," ","4","5","2","1",")">>),
    Line(T0900, LMGRD, <<"S","t","a","r","t","e","d"," ","S","W","_","D"," ","(","p","i","d"," ","7","7",")">>),
    Line(T0900, LMGRD, <<"l","i","c","e","n","s","e"," ","f","i","l","e","(","s",")",":"," ","C",":","\\","s","w","_","d",".","l","i","c">>),
    Line(T0900, LMGRD, <<"l","i","c","e","n","s","e"," ","f","i","l","e","(","s",")",":"," ","D",":","\\","b",".","l","i","c"," ">>),
    Line(T0900, LMGRD, <<"S","3","'","s"," ","S","e","r","v","e","r"," ","n","o","d","e","i","d"," ","i","s"," ","A","B","1","2">>),
    Line(T0900, SW_D, <<"S","e","r","v","e","r"," ","s","t","a","r","t","e","d"," ","o","n"," ","S","4"," ","f","o","r",":"," ","s","w","x">>),
    Line(T0900, SW_D, <<"T","I","M","E","S","T","A","M","P"," ","6","/","1","/","2","0","2","4">>),
    Line(T0900, SW_D, <<"T","I","M","E","S","T","A","M","P"," ","1","0","/","2","/","2","0","2","4">>),
    Line(T0900, SW_D, <<"T","I","M","E","S","T","A","M","P">>),
    Line(T1000, SW_D, <<"O","U","T",":"," ","\"","s","w","x","\""," ","a","l","@","W","1">>) }

AllLines == SessionLines \cup KindLines \cup MetaLines

\* lineFacts over the lines of the model, computed once
Facts == [line \in AllLines |-> lineFacts(line)]

\* ------------------------------------------------------------------------
\* State machine.
\* ------------------------------------------------------------------------
Years == {2024, 2025}

Init ==
  /\ n = 0
  /\ currentYear \in Years
  /\ currentDate = <<>>
  /\ entries = <<>>
  /\ sessions = <<>>
  /\ openSessions = <<>>
  /\ serverName = Unknown
  /\ flexVersion = Unknown
  /\ port = Unknown
  /\ vendorPort = Unknown
  /\ pid = Unknown
  /\ logPath = Unknown
  /\ data = <<>>
  /\ card = <<>>
  /\ isParsing = FALSE
  /\ loads = <<>>
  /\ optTimeoutEnabled = FALSE
  /\ optTimeout = DefaultTimeout
  /\ optFeatureTimeouts = <<>>
  /\ optGroups = <<>>
  /\ optRules = <<>>
  /\ customUsers = <<>>

\* The session tracking of the OUT and IN branches, and entries.push(entry);
\* at is new Date(`${currentDate || '1/1/' + currentYear} ${time}`)
Reconcile(entry, at) ==
  /\ entries' = Append(entries, entry)
  /\ IF entry.type = "OUT" /\ resolved(entry)
     THEN /\ openSessions' = openAfterOut(openSessions, entry, at)
          /\ UNCHANGED sessions
     ELSE IF /\ entry.type = "IN" /\ resolved(entry)
             /\ sessionKey(entry) \in DOMAIN openSessions
     THEN /\ sessions' = sessionsAfterIn(sessions, openSessions, entry, at)
          /\ openSessions' = openAfterIn(openSessions, entry)
     ELSE UNCHANGED <<sessions, openSessions>>

\* The loop body for a line that matched timeMatch; date is currentDate as
\* the TIMESTAMP branch leaves it
Interpret(f, date) ==
  /\ currentDate' = date
  /\ flexVersion' = assign(flexVersion, f.version)
  /\ port' = assign(port, f.port)
  /\ vendorPort' = assign(vendorPort, f.vendorPort)
  /\ serverName' =
       assignIfUnknown(
         assignIfUnknown(assign(serverName, f.nodeid), f.startedOn),
         f.serverStarted)
  /\ logPath' = assign(logPath, f.logPath)
  /\ pid' = assign(pid, f.pid)
  /\ Reconcile([f.entry EXCEPT !.date = date], stamp(date, currentYear, f.time))

LineEffect(f) ==
  IF ~f.ok                                   \* if (!timeMatch) return
  THEN UNCHANGED <<currentDate, entries, sessions, openSessions, serverName,
                   flexVersion, port, vendorPort, pid, logPath>>
  ELSE Interpret(f, assign(currentDate, f.date))

\* One iteration of lines.forEach(line => ...)
ParseLine(line) ==
  /\ data = <<>>
  /\ n' = n + 1
  /\ UNCHANGED <<currentYear, data, card, loadVars, optVars>>
  /\ LineEffect(Facts[line])

\* The end of parseLogFile: the denials and errors are filtered out of the
\* entries and the DashboardData is returned.
Finish ==
  /\ data = <<>>
  /\ data' = <<[metadata |-> [serverName |-> serverName, flexVersion |-> flexVersion,
                              port |-> port, vendorPort |-> vendorPort, pid |-> pid,
                              logPath |-> logPath, startDate |-> currentDate],
                entries |-> entries,
                sessions |-> sessions,
                denials |-> SelectSeq(entries, LAMBDA e : e.type = "DENIED"),
                errors |-> SelectSeq(entries,
                             LAMBDA e : e.type = "ERROR" \/ e.type = "UNSUPPORTED")]>>
  /\ UNCHANGED <<n, currentYear, currentDate, entries, sessions, openSessions,
                 serverName, flexVersion, port, vendorPort, pid, logPath, card,
                 loadVars, optVars>>

ParseSessionLine == n < MaxLines /\ \E line \in SessionLines : ParseLine(line)

Next == ParseSessionLine \/ Finish

Spec == Init /\ [][Next]_vars

ParseKindLine == n < MaxKindLines /\ \E line \in KindLines : ParseLine(line)

NextKind == ParseKindLine \/ Finish

KindSpec == Init /\ [][NextKind]_vars

ParseMetaLine == n < MaxMetaLines /\ \E line \in MetaLines : ParseLine(line)

NextMeta == ParseMetaLine \/ Finish

MetaSpec == Init /\ [][NextMeta]_vars

\* ------------------------------------------------------------------------
\* Strings, arrays and records as computeAnalytics uses them.
\* ------------------------------------------------------------------------

\* The characters of the model in the order of their UTF-16 code units.
CodeOrder ==
  <<" ", "+", "-", ".", "/">> \o Digits \o <<":", "@">> \o UpperSeq \o <<"_">> \o LowerSeq

CodeOf(c) == CHOOSE k \in 1..Len(CodeOrder) : CodeOrder[k] = c

\* a < b in the order of Array.prototype.sort() without comparator and of
\* a.localeCompare(b) < 0, which agree on these characters
strLess(a, b) ==
  \E i \in 1..Len(b) :
    /\ \A k \in 1..(i - 1) : k <= Len(a) /\ a[k] = b[k]
    /\ (i > Len(a) \/ CodeOf(a[i]) < CodeOf(b[i]))

\* the elements of s at the indices I, in their order in s
Pick(s, I) ==
  [k \in 1..Cardinality(I) |-> s[CHOOSE i \in I : Cardinality({j \in I : j < i}) = k - 1]]

\* the distinct elements of s in the order of their first occurrence: the
\* insertion order of the keys of a Record filled from s
keysOf(s) == Pick(s, {i \in 1..Len(s) : \A j \in 1..(i - 1) : s[j] # s[i]})

\* the index in the sorted array of element i of s: Array.prototype.sort is
\* stable, Less being the comparator's "negative result"
sortedIndex(s, i, Less(_, _)) ==
  1 + Cardinality({j \in 1..Len(s) : Less(s[j], s[i]) \/ (~Less(s[i], s[j]) /\ j < i)})

\* Array.prototype.sort(comparator)
sort(s, Less(_, _)) ==
  [k \in 1..Len(s) |-> s[CHOOSE i \in 1..Len(s) : sortedIndex(s, i, Less) = k]]

\* the number of elements of s that satisfy P
count(s, P(_)) == Cardinality({i \in 1..Len(s) : P(s[i])})

\* Days since 1970-01-01 to <<year, month, day>> (the proleptic Gregorian
\* calendar of Date)
civilFromDays(z) ==
  LET doe == (z + 719468) % 146097
      era == (z + 719468) \div 146097
      yoe == (doe - doe \div 1460 + doe \div 36524 - doe \div 146096) \div 365
      doy == doe - (365 * yoe + yoe \div 4 - yoe \div 100)
      mp  == (5 * doy + 2) \div 153
      m   == IF mp < 10 THEN mp + 3 ELSE mp - 9
  IN  <<yoe + era * 400 + (IF m <= 2 THEN 1 ELSE 0), m, doy - (153 * mp + 2) \div 5 + 1>>

twoDigits(v) == <<Digits[(v \div 10) + 1], Digits[(v % 10) + 1]>>

isoOf(ymd) == yearString(ymd[1]) \o <<"-">> \o twoDigits(ymd[2]) \o <<"-">> \o twoDigits(ymd[3])

\* date.toISOString().split('T')[0] for a valid date: the UTC calendar day.
\* zone is getTimezoneOffset() in seconds (UTC = local time + zone).
isoDay(date, zone) == isoOf(civilFromDays((date.t + zone) \div 86400))

\* date.getHours(): the local hour
getHours(date) == (date.t % 86400) \div 3600

\* ------------------------------------------------------------------------
\* computeAnalytics(sessions, denials).  A Record is the sequence of its
\* entries in insertion order, which is the order of Object.entries for the
\* keys of the model (names, dates and pair names, none of them an integer
\* index or a property of Object.prototype).
\* ------------------------------------------------------------------------
RECURSIVE sumSeq(_)
sumSeq(s) == IF s = <<>> THEN 0 ELSE s[1] + sumSeq(Tail(s))

RECURSIVE flatten(_)
flatten(ss) == IF ss = <<>> THEN <<>> ELSE ss[1] \o flatten(Tail(ss))

\* s.duration || 0, in sixtieths of a minute
durationOr0(s) == IF s.duration.nan THEN 0 ELSE s.duration.v

\* the sum of s.duration || 0 over the sessions whose field fld is name
totalDuration(ss, fld, name) ==
  sumSeq([i \in 1..Len(ss) |->
            IF ss[i][fld] = name THEN durationOr0(ss[i]) ELSE 0])

\* the values of field fld, in order, of the elements that have one (d.user &&)
fieldOf(s, fld) ==
  Pick([i \in 1..Len(s) |-> s[i][fld]], {i \in 1..Len(s) : s[i][fld] # <<>>})

countField(s, fld, name) == Cardinality({i \in 1..Len(s) : s[i][fld] = name})

userStatOf(ss, dn, u) ==
  [name |-> u,
   sessions |-> countField(ss, "user", u),
   totalDuration |-> totalDuration(ss, "user", u),
   denials |-> countField(dn, "user", u)]

userStatsOver(ss, dn, names) ==
  [k \in 1..Len(names) |-> userStatOf(ss, dn, names[k])]

\* userStats: filled by sessions.forEach, then by denials.forEach
userStats(ss, dn) ==
  userStatsOver(ss, dn,
                keysOf(fieldOf(ss, "user") \o fieldOf(dn, "user")))

\* faulty variant: a denial is counted as a checkout as well
featureStatOfDeniedCheckout(ss, dn, f) ==
  [name |-> f,
   checkouts |-> countField(ss, "feature", f) + countField(dn, "feature", f),
   denials |-> countField(dn, "feature", f),
   totalDuration |-> totalDuration(ss, "feature", f)]

featureStatOf(ss, dn, f) ==
  [name |-> f,
   checkouts |-> countField(ss, "feature", f),
   denials |-> countField(dn, "feature", f),
   totalDuration |-> totalDuration(ss, "feature", f)]

featureStatsOver(ss, dn, names) ==
  [k \in 1..Len(names) |-> featureStatOf(ss, dn, names[k])]

featureStats(ss, dn) ==
  featureStatsOver(ss, dn,
                   keysOf(fieldOf(ss, "feature") \o fieldOf(dn, "feature")))

hostStatOf(ss, h) ==
  [name |-> h,
   sessions |-> countField(ss, "host", h),
   totalDuration |-> totalDuration(ss, "host", h),
   users |-> {ss[i].user : i \in {j \in 1..Len(ss) : ss[j].host = h}}]

hostStatsOver(ss, names) == [k \in 1..Len(names) |-> hostStatOf(ss, names[k])]

hostStats(ss) == hostStatsOver(ss, keysOf(fieldOf(ss, "host")))

\* a.time.localeCompare(b.time) < 0
timeBefore(a, b) == strLess(a.time, b.time)

\* Object.entries(map).map(([time, count]) => ({ time, count })) for the map
\* that counts the keys of the sequence keys
countsOver(keys, names) ==
  [k \in 1..Len(names) |->
     [time |-> names[k], count |-> Cardinality({i \in 1..Len(keys) : keys[i] = names[k]})]]

countsByKey(keys) == countsOver(keys, keysOf(keys))

\* timeKey = s.start.toISOString().split('T')[0]
timeKeys(ss, zone) == [i \in 1..Len(ss) |-> isoDay(ss[i].start, zone)]

timeSeriesUsage(ss, zone) == sort(countsByKey(timeKeys(ss, zone)), timeBefore)

\* dateKey = d.date || 'Unknown'
dateKeys(dn) ==
  [i \in 1..Len(dn) |-> IF dn[i].date # <<>> THEN dn[i].date ELSE Unknown]

denialsByDay(dn) == sort(countsByKey(dateKeys(dn)), timeBefore)

\* peakHours: 24 entries, hour 0 first
peakHours(ss) ==
  [k \in 1..24 |->
     [hour |-> k - 1,
      count |-> Cardinality({i \in 1..Len(ss) : getHours(ss[i].start) = k - 1})]]

\* validSessions: s.end && !isNaN(s.start.getTime()) && !isNaN(s.end.getTime())
validSessions(ss) ==
  SelectSeq(ss, LAMBDA s : "end" \in DOMAIN s /\ ~s.start.nan /\ ~s.end.nan)

\* faulty variant: the end of a session is pushed before its start
eventsOfEndFirst(ss) ==
  flatten([i \in 1..Len(ss) |->
             <<[time |-> ss[i].end.t, delta |-> -1], [time |-> ss[i].start.t, delta |-> 1]>>])

\* events.push({ time: start, delta: 1 }); events.push({ time: end, delta: -1 })
\* for each session, in order
eventsOf(ss) ==
  flatten([i \in 1..Len(ss) |->
             <<[time |-> ss[i].start.t, delta |-> 1], [time |-> ss[i].end.t, delta |-> -1]>>])

\* (a, b) => a.time - b.time
earlier(a, b) == a.time < b.time

\* events.sort((a, b) => a.time - b.time)
sortedEvents(ss) == sort(eventsOf(ss), earlier)

\* the running sum after event k of ev
running(ev, k) == sumSeq([i \in 1..k |-> ev[i].delta])

\* the running sums after each event: the concurrency samples
runningSums(ev) == [k \in 1..Len(ev) |-> running(ev, k)]

\* new Date(e.time).toISOString().split('T')[0]
eventDay(e, zone) == isoOf(civilFromDays((e.time + zone) \div 86400))

eventDays(ev, zone) == [k \in 1..Len(ev) |-> eventDay(ev[k], zone)]

\* concurrentMap[day] = Math.max(concurrentMap[day] || 0, concurrent) over the
\* events of the day
dayPeak(ev, days, day) ==
  Max({0} \cup {running(ev, k) : k \in {j \in 1..Len(ev) : days[j] = day}})

concurrentOver(ev, days, names) ==
  [k \in 1..Len(names) |-> [time |-> names[k], concurrent |-> dayPeak(ev, days, names[k])]]

concurrentMap(ev, zone) == concurrentOver(ev, eventDays(ev, zone), keysOf(eventDays(ev, zone)))

concurrentUsage(ss, zone) ==
  sort(concurrentMap(sortedEvents(validSessions(ss)), zone), timeBefore)

\* The upper ends of the first five duration buckets, in minutes.
BucketEnds == <<15, 60, 120, 240, 480>>

BucketNames ==
  <<<<"<","1","5","m">>, <<"1","5","m","-","1","h">>, <<"1","-","2","h">>, <<"2","-","4","h">>, <<"4","-","8","h">>, <<"8","h","+">>>>

\* faulty variant: a duration equal to a bucket's upper end stays in the bucket
bucketOfInclusive(s) ==
  IF \E k \in 1..5 : durationOr0(s) <= BucketEnds[k] * 60
  THEN Min({k \in 1..5 : durationOr0(s) <= BucketEnds[k] * 60})
  ELSE 6

\* the bucket of a session: the first k with d < BucketEnds[k], else the last
bucketOf(s) ==
  IF \E k \in 1..5 : durationOr0(s) < BucketEnds[k] * 60
  THEN Min({k \in 1..5 : durationOr0(s) < BucketEnds[k] * 60})
  ELSE 6

durationDistribution(ss) ==
  [k \in 1..6 |->
     [bucket |-> BucketNames[k],
      count |-> Cardinality({i \in 1..Len(ss) : bucketOf(ss[i]) = k})]]

\* faulty variant: the features of a user are left in the order of first use
featuresOfUserUnsorted(ss, u) ==
  keysOf(fieldOf(SelectSeq(ss, LAMBDA s : s.user = u), "feature"))

\* Array.from(features).sort() for userFeatures[u]
featuresOfUser(ss, u) ==
  sort(keysOf(fieldOf(SelectSeq(ss, LAMBDA s : s.user = u), "feature")), strLess)

pairName(a, b) == a \o <<" ", "+", " ">> \o b

\* the index pairs i < j of the two nested loops, in the order they are visited
loopPairs(len) == {p \in (1..len) \X (1..len) : p[1] < p[2]}

pairBefore(p, q) == p[1] < q[1] \/ (p[1] = q[1] /\ p[2] < q[2])

pairAt(len, k) ==
  CHOOSE p \in loopPairs(len) : Cardinality({q \in loopPairs(len) : pairBefore(q, p)}) = k - 1

\* the keys `${arr[i]} + ${arr[j]}` one user increments, in order
pairsOfArr(arr) ==
  [k \in 1..Cardinality(loopPairs(Len(arr))) |->
     pairName(arr[pairAt(Len(arr), k)[1]], arr[pairAt(Len(arr), k)[2]])]

usersOf(ss) == keysOf(fieldOf(ss, "user"))

\* every increment of pairCounts, in order: Object.values(userFeatures).forEach
pairIncrements(ss, users) ==
  flatten([k \in 1..Len(users) |-> pairsOfArr(featuresOfUser(ss, users[k]))])

pairCountsOver(incs, names) ==
  [k \in 1..Len(names) |->
     [pair |-> names[k], count |-> Cardinality({i \in 1..Len(incs) : incs[i] = names[k]})]]

pairCounts(ss) ==
  pairCountsOver(pairIncrements(ss, usersOf(ss)), keysOf(pairIncrements(ss, usersOf(ss))))

\* (a, b) => b.count - a.count
moreCount(a, b) == a.count > b.count

\* The number of pairs kept: slice(0, 10).
TopPairs == 10

slice(s, len) == SubSeq(s, 1, Min({len, Len(s)}))

featureCoUsage(ss) == slice(sort(pairCounts(ss), moreCount), TopPairs)

\* Math.round((s.denials / (s.checkouts + s.denials)) * 100), for
\* checkouts + denials > 0
ratioOf(checkouts, dens) ==
  (200 * dens + checkouts + dens) \div (2 * (checkouts + dens))

\* (a, b) => b.ratio - a.ratio
moreRatio(a, b) == a.ratio > b.ratio

ratiosOver(stats) ==
  [k \in 1..Len(stats) |->
     [name |-> stats[k].name, checkouts |-> stats[k].checkouts, denials |-> stats[k].denials,
      ratio |-> ratioOf(stats[k].checkouts, stats[k].denials)]]

denialRatioByFeature(stats) ==
  sort(ratiosOver(SelectSeq(stats, LAMBDA s : s.checkouts > 0 \/ s.denials > 0)), moreRatio)

\* The value returned by computeAnalytics(ss, dn), with the zone of the host.
computeAnalytics(ss, dn, zone) ==
  [userStats |-> userStats(ss, dn),
   featureStats |-> featureStats(ss, dn),
   timeSeriesUsage |-> timeSeriesUsage(ss, zone),
   denialsByDay |-> denialsByDay(dn),
   peakHours |-> peakHours(ss),
   concurrentUsage |-> concurrentUsage(ss, zone),
   durationDistribution |-> durationDistribution(ss),
   hostStats |-> hostStats(ss),
   featureCoUsage |-> featureCoUsage(ss),
   denialRatioByFeature |-> denialRatioByFeature(featureStats(ss, dn))]

\* ------------------------------------------------------------------------
\* The right-sizing card of one feature (cost tab): d is the data shown, f a
\* key of d.featureStats and seats the value of licenseSeats[f] || 0.
\* Durations of waits are in sixtieths of a minute.
\* ------------------------------------------------------------------------

\* events.push(start, +1); if (s.end) events.push(end, -1)
cardEventsOf(fs) ==
  flatten([i \in 1..Len(fs) |->
             IF "end" \in DOMAIN fs[i]
             THEN <<[time |-> fs[i].start.t, delta |-> 1], [time |-> fs[i].end.t, delta |-> -1]>>
             ELSE <<[time |-> fs[i].start.t, delta |-> 1]>>])

cardEvents(fs) == sort(cardEventsOf(fs), earlier)

\* featurePeak = Math.max(featurePeak, concurrent) over the events, from 0
featurePeak(ev) == Max({0} \cup {running(ev, k) : k \in 1..Len(ev)})

\* (a, b) => a - b
numLess(a, b) == a < b

\* faulty variant: the samples are not sorted
concurrentSamplesUnsorted(ev) == runningSums(ev)

\* concurrentSamples.sort((a, b) => a - b)
concurrentSamples(ev) == sort(runningSums(ev), numLess)

\* samples[Math.floor(samples.length * num / 100)] || 0
percentile(samples, num) ==
  IF samples = <<>> THEN 0 ELSE samples[((Len(samples) * num) \div 100) + 1]

\* d.featureStats[f]
statsOf(d, f) == d.featureStats[CHOOSE k \in 1..Len(d.featureStats) : d.featureStats[k].name = f]

\* denialRate > 3, with denialRate = checkouts + denials > 0 ?
\* (denials / (checkouts + denials)) * 100 : 0
denialRateOver3(stat) == 100 * stat.denials > 3 * (stat.checkouts + stat.denials)

\* denialRate === 0
denialRateZero(stat) == stat.denials = 0

isOverUtilized(stat, seats, peak) ==
  denialRateOver3(stat) /\ (~(seats > 0) \/ peak >= seats)

\* faulty variant: at capacity whether or not the feature is over-utilized
isAtCapacityAlone(stat, seats, peak) ==
  seats > 0 /\ 10 * peak >= 9 * seats /\ seats > 0

\* featurePeak >= totalSeats * 0.9
isAtCapacity(stat, seats, peak) ==
  ~isOverUtilized(stat, seats, peak) /\ seats > 0 /\ 10 * peak >= 9 * seats /\ seats > 0

\* unusedSeats >= 2 && utilizationPct < 75
isOverProvisioned(stat, seats, peak) ==
  /\ ~isOverUtilized(stat, seats, peak) /\ ~isAtCapacity(stat, seats, peak)
  /\ seats > 0 /\ seats - peak >= 2 /\ 100 * peak < 75 * seats

\* p90 <= Math.ceil(featurePeak * 0.4)
isUnderUtilized(stat, seats, peak, p90) ==
  /\ ~isOverUtilized(stat, seats, peak) /\ ~isAtCapacity(stat, seats, peak)
  /\ ~isOverProvisioned(stat, seats, peak)
  /\ peak >= 3 /\ p90 <= (4 * peak + 9) \div 10 /\ denialRateZero(stat)

\* the badge shown on the card
badgeOf(stat, seats, peak, p90) ==
  IF isOverUtilized(stat, seats, peak) THEN "Needs More Seats"
  ELSE IF isAtCapacity(stat, seats, peak) THEN "At Capacity"
  ELSE IF isUnderUtilized(stat, seats, peak, p90) \/ isOverProvisioned(stat, seats, peak)
       THEN "Potential Savings"
  ELSE IF seats > 0 THEN "Right-Sized"
  ELSE "Needs Seat Count"

\* new Date(`${den.date} ${den.time}`)
denialTime(den) == newDate(den.date \o <<" ">> \o den.time)

\* featureSessions.filter(s => s.user === den.user && s.start > denialTime)
\*   .sort((a, b) => a.start - b.start)
laterCheckouts(fs, den) ==
  sort(SelectSeq(fs, LAMBDA s : s.user = den.user /\ ~s.start.nan
                                /\ s.start.t > denialTime(den).t),
       LAMBDA a, b : a.start.t < b.start.t)

\* The window of a retry, the number of waits that makes a measurement, the
\* fallback wait and the context-switch overhead, in minutes.
WaitWindow == 240
MinMeasured == 3
FallbackWait == 45
SwitchOverhead == 10

\* faulty variant: the wait is pushed however long it is
waitOfAnyGap(fs, den) ==
  IF den.user = <<>> \/ den.date = <<>> \/ den.time = <<>> THEN <<>>
  ELSE IF denialTime(den).nan THEN <<>>
  ELSE IF laterCheckouts(fs, den) = <<>> THEN <<>>
  ELSE <<laterCheckouts(fs, den)[1].start.t - denialTime(den).t>>

\* the wait a denial pushes on waitTimesMin, as a sequence of 0 or 1 element
waitOf(fs, den) ==
  IF den.user = <<>> \/ den.date = <<>> \/ den.time = <<>> THEN <<>>
  ELSE IF denialTime(den).nan THEN <<>>
  ELSE IF laterCheckouts(fs, den) = <<>> THEN <<>>
  ELSE IF /\ laterCheckouts(fs, den)[1].start.t - denialTime(den).t > 0
          /\ laterCheckouts(fs, den)[1].start.t - denialTime(den).t <= WaitWindow * 60
       THEN <<laterCheckouts(fs, den)[1].start.t - denialTime(den).t>>
  ELSE <<>>

\* waitTimesMin, over d.denials.filter(den => den.feature === f)
waitTimesMin(fs, dens) == flatten([i \in 1..Len(dens) |-> waitOf(fs, dens[i])])

\* medianWaitMin
medianWaitMin(waits) ==
  IF Len(waits) >= MinMeasured
  THEN sort(waits, numLess)[(Len(waits) \div 2) + 1]
  ELSE FallbackWait * 60

\* effectiveWaitMin = medianWaitMin + 10
effectiveWaitMin(waits) == medianWaitMin(waits) + SwitchOverhead * 60

\* logDays = Math.max(1, Math.round((last.start - first.start) / 86400000))
logDays(ss) ==
  IF Len(ss) > 0 /\ ss[Len(ss)].start.t >= ss[1].start.t
  THEN Max({1, (2 * (ss[Len(ss)].start.t - ss[1].start.t) + 86400) \div (2 * 86400)})
  ELSE 1

\* annualizedDenials = Math.round(denials * (365 / logDays))
annualizedDenials(dens, days) == (2 * 365 * dens + days) \div (2 * days)

\* The values computed for the card of feature f.  The waits and the figures
\* derived from them are those of the block shown when isOverUtilized.
cardWith(f, seats, fs, ev, stat, waits, days) ==
  [feature |-> f,
   totalSeats |-> seats,
   sessions |-> fs,
   events |-> ev,
   samples |-> concurrentSamples(ev),
   featurePeak |-> featurePeak(ev),
   p50 |-> percentile(concurrentSamples(ev), 50),
   p90 |-> percentile(concurrentSamples(ev), 90),
   p95 |-> percentile(concurrentSamples(ev), 95),
   checkouts |-> stat.checkouts,
   denials |-> stat.denials,
   isOverUtilized |-> isOverUtilized(stat, seats, featurePeak(ev)),
   isAtCapacity |-> isAtCapacity(stat, seats, featurePeak(ev)),
   isOverProvisioned |-> isOverProvisioned(stat, seats, featurePeak(ev)),
   isUnderUtilized |->
     isUnderUtilized(stat, seats, featurePeak(ev), percentile(concurrentSamples(ev), 90)),
   badge |-> badgeOf(stat, seats, featurePeak(ev), percentile(concurrentSamples(ev), 90)),
   waitTimesMin |-> waits,
   medianWaitMin |-> medianWaitMin(waits),
   effectiveWaitMin |-> effectiveWaitMin(waits),
   annualizedDenials |-> annualizedDenials(stat.denials, days),
   \* annualHoursLost = annualizedDenials * (effectiveWaitMin / 60), in the
   \* unit of the waits
   annualWaitLost |-> annualizedDenials(stat.denials, days) * effectiveWaitMin(waits)]

cardOver(d, f, seats, fs) ==
  cardWith(f, seats, fs, cardEvents(fs), statsOf(d, f),
           waitTimesMin(fs, SelectSeq(d.denials, LAMBDA den : den.feature = f)),
           logDays(d.sessions))

cardOf(d, f, seats) == cardOver(d, f, seats, SelectSeq(d.sessions, LAMBDA s : s.feature = f))

\* ------------------------------------------------------------------------
\* The session and denial lists the aggregator is applied to.
\* ------------------------------------------------------------------------
AL == <<"a","l">>
BO == <<"b","o">>
W1 == <<"W","1">>
W2 == <<"W","2">>
CAE == <<"c","a","e">>
SIM == <<"s","i","m">>
SWX == <<"s","w","x">>
D0601 == <<"6","/","1","/","2","0","2","4">>
D0602 == <<"6","/","2","/","2","0","2","4">>
D1002 == <<"1","0","/","2","/","2","0","2","4">>
T0945 == <<"9",":","4","5",":","0","0">>
T1400 == <<"1","4",":","0","0",":","0","0">>
T2000 == <<"2","0",":","0","0",":","0","0">>

\* the session parseLogFile pushes for an OUT read at (d1, t1) and the IN of
\* its key read at (d2, t2)
sessionOf(u, h, f, d1, t1, d2, t2) ==
  [user |-> u, host |-> h, feature |-> f,
   start |-> newDate(d1 \o <<" ">> \o t1),
   end |-> newDate(d2 \o <<" ">> \o t2),
   duration |-> durationOf(newDate(d1 \o <<" ">> \o t1), newDate(d2 \o <<" ">> \o t2))]

\* every sequence of at most len elements of pool
seqsUpTo(pool, len) == UNION {[1..k -> pool] : k \in 0..len}

\* Sessions that overlap, touch, last no time, run over midnight and end in
\* the evening.
UsagePool ==
  { sessionOf(AL, W1, SWX, D0601, T0900, D0601, T1000),
    sessionOf(BO, W2, SWX, D0601, T0945, D0601, T1000),
    sessionOf(AL, W1, SWX, D0601, T1000, D0601, T1000),
    sessionOf(BO, W2, SWX, D0601, T1000, D0602, T0900),
    sessionOf(AL, W1, CAE, D0601, T0900, D0601, T1130),
    sessionOf(BO, W1, SWX, D0601, T1400, D0601, T2000) }

\* getTimezoneOffset() of the host, in seconds: UTC, and five hours behind
Zones == {0, 18000}

\* The seat counts entered for a feature; 0 is none (licenseSeats[f] || 0).
UsageSeats == {0, 2}

\* ------------------------------------------------------------------------
\* The dashboard once a log is loaded.
\* ------------------------------------------------------------------------

\* return { ..., sessions, denials, ...analytics } of parseLogFile
dashboardOf(ss, dn, zone) ==
  [sessions |-> ss, denials |-> dn, zone |-> zone] @@ computeAnalytics(ss, dn, zone)

\* const analytics = computeAnalytics(sessions, denials) and the data built
\* from it: { ..., sessions, denials, ...analytics }
Analyze(ss, dn, zone) ==
  /\ data = <<>>
  /\ data' = <<dashboardOf(ss, dn, zone)>>
  /\ UNCHANGED <<n, currentYear, currentDate, entries, sessions, openSessions,
                 serverName, flexVersion, port, vendorPort, pid, logPath, card,
                 loadVars, optVars>>

\* features.map(f => ...) of the cost tab, for one feature and seat count
RenderCard(f, seats) ==
  /\ data # <<>>
  /\ card' = <<cardOf(data[1], f, seats)>>
  /\ UNCHANGED <<n, currentYear, currentDate, entries, sessions, openSessions,
                 serverName, flexVersion, port, vendorPort, pid, logPath, data,
                 loadVars, optVars>>

\* features = Object.keys(d.featureStats)
featuresOf(d) == {d.featureStats[k].name : k \in 1..Len(d.featureStats)}

AnalyzeUsage ==
  \E ss \in seqsUpTo(UsagePool, MaxUsage), zone \in Zones : Analyze(ss, <<>>, zone)

RenderUsageCard ==
  /\ data # <<>>
  /\ \E f \in featuresOf(data[1]), seats \in UsageSeats : RenderCard(f, seats)

NextUsage == AnalyzeUsage \/ RenderUsageCard

UsageSpec == Init /\ [][NextUsage]_vars

\* ------------------------------------------------------------------------
\* Logs of several users and features, with denials.
\* ------------------------------------------------------------------------
CY == <<"c","y">>
CWP == <<"c","w","p">>

\* the entry parseLogFile pushes for a DENIED: line read while the running
\* date is date (<<>> before the first date of the log)
deniedOf(time, message, date) ==
  [lineFacts(Line(time, SW_D, message)).entry EXCEPT !.date = date]

\* every sequence of at most len different elements of pool
distinctSeqsUpTo(pool, len) ==
  {s \in seqsUpTo(pool, len) : \A i, j \in 1..Len(s) : s[i] = s[j] => i = j}

\* Two users, three features, two hosts, three days.
RollupPool ==
  { sessionOf(AL, W1, SIM, D0601, T0900, D0601, T1000),
    sessionOf(AL, W1, SWX, D0601, T0945, D0601, T1000),
    sessionOf(BO, W2, CAE, D1002, T0900, D1002, T1000),
    sessionOf(BO, W2, SIM, D0601, T1400, D0601, T2000),
    sessionOf(BO, W1, SWX, D0601, T1000, D0602, T0900) }

\* a denial of al on swx in October, one of a user and a feature with no
\* session in June, and one whose line names no reason, read before any date
DeniedOctober == deniedOf(T1000, <<"D","E","N","I","E","D",":"," ","\"","s","w","x","\""," ","a","l","@","W","1"," ","(","L","i","c","e","n","s","e","d"," ","n","u","m","b","e","r"," ","o","f"," ","u","s","e","r","s"," ","a","l","r","e","a","d","y"," ","r","e","a","c","h","e","d","."," ","(","-","4",",","3","4","2",")",")">>, D1002)
DeniedJune == deniedOf(T0945, <<"D","E","N","I","E","D",":"," ","\"","c","w","p","\""," ","c","y","@","W","2"," ","(","L","i","c","e","n","s","e","d"," ","n","u","m","b","e","r"," ","o","f"," ","u","s","e","r","s"," ","a","l","r","e","a","d","y"," ","r","e","a","c","h","e","d","."," ","(","-","4",",","3","4","2",")",")">>, D0601)
DeniedBare == deniedOf(T0900, <<"D","E","N","I","E","D",":"," ","\"","s","w","x","\""," ","a","l","@","W","1">>, <<>>)

DenialLists ==
  { <<>>, <<DeniedOctober>>, <<DeniedOctober, DeniedJune>>,
    <<DeniedJune, DeniedBare, DeniedOctober, DeniedJune>> }

AnalyzeRollup ==
  \E ss \in distinctSeqsUpTo(RollupPool, MaxRollup), dn \in DenialLists, zone \in Zones :
    Analyze(ss, dn, zone)

NextRollup == AnalyzeRollup

RollupSpec == Init /\ [][NextRollup]_vars

\* ------------------------------------------------------------------------
\* A log of one busy feature, for the right-sizing cards.
\* ------------------------------------------------------------------------
T0800 == <<"8",":","0","0",":","0","0">>

\* The sessions in the order of their returns: three of swx open at 10:00 of
\* 6/1, two from 14:00, one of cae, and two of swx on 6/2.
CostSessions ==
  << sessionOf(AL, W2, SWX, D0601, T1000, D0601, T1130),
     sessionOf(BO, W1, SWX, D0601, T0945, D0601, T1400),
     sessionOf(AL, W1, SWX, D0601, T0900, D0601, T2000),
     sessionOf(BO, W1, SWX, D0601, T1400, D0601, T2000),
     sessionOf(AL, W1, CAE, D0601, T0900, D0601, T1130),
     sessionOf(AL, W1, SWX, D0602, T0900, D0602, T1000),
     sessionOf(BO, W1, SWX, D0602, T1000, D0602, T1400) >>

DeniedSwx(user, time, date) ==
  deniedOf(time,
           <<"D","E","N","I","E","D",":"," ","\"","s","w","x","\""," ">> \o user
             \o <<"@","W","1"," ","(","L","i","c","e","n","s","e","d"," ","n","u","m","b","e","r"," ","o","f"," ","u","s","e","r","s"," ","a","l","r","e","a","d","y"," ","r","e","a","c","h","e","d","."," ","(","-","4",",","3","4","2",")",")">>,
           date)

\* The denials of swx in the order of their lines: one read before any date,
\* then al at 8:00 and 9:45, bo at 10:00 and 11:30:15, al at 14:00.
CostDenials ==
  << DeniedSwx(AL, T0800, <<>>),
     DeniedSwx(AL, T0800, D0601),
     DeniedSwx(AL, T0945, D0601),
     DeniedSwx(BO, T1000, D0601),
     DeniedSwx(BO, T1130, D0601),
     DeniedSwx(AL, T1400, D0601) >>

\* The seat counts entered for a feature; 0 is none.
CostSeats == 0..MaxSeats

AnalyzeCost ==
  \E k \in 0..Len(CostSessions), j \in 0..Len(CostDenials), zone \in Zones :
    Analyze(SubSeq(CostSessions, 1, k), SubSeq(CostDenials, 1, j), zone)

RenderCostCard ==
  /\ data # <<>>
  /\ \E f \in featuresOf(data[1]), seats \in CostSeats : RenderCard(f, seats)

NextCost == AnalyzeCost \/ RenderCostCard

CostSpec == Init /\ [][NextCost]_vars

\* ------------------------------------------------------------------------
\* Loading a log: the file input and the sample button of the landing page.
\* A request starts an asynchronous read (FileReader.readAsText) or a timer
\* (setTimeout 300 ms); the callback parses and publishes the result.
\* ------------------------------------------------------------------------

MaxLoads == 3

\* The sessions of the files the user may pick.
FileLogs ==
  { <<sessionOf(AL, W1, SWX, D0601, T0900, D0601, T1000)>>,
    <<sessionOf(BO, W2, SWX, D0601, T0945, D0601, T1000),
      sessionOf(AL, W1, CAE, D0601, T0900, D0601, T1130)>> }

\* The sessions of a generated sample log (the generator draws at random).
DemoLogs ==
  { <<sessionOf(BO, W1, SWX, D0601, T1400, D0601, T2000)>>,
    <<sessionOf(AL, W2, SWX, D0601, T1000, D0601, T1130),
      sessionOf(BO, W1, SWX, D0601, T0945, D0601, T1400)>> }

\* the loads whose callback has not run yet
pendingLoads == {i \in 1..Len(loads) : ~loads[i].done}

\* handleFileUpload: setIsParsing(true); reader.readAsText(file)
handleFileUpload(file) ==
  /\ data = <<>>
  /\ Len(loads) < MaxLoads
  /\ isParsing' = TRUE
  /\ loads' = Append(loads, [via |-> "reader", log |-> file, done |-> FALSE])
  /\ UNCHANGED <<parseVars, data, card, optVars>>

\* the sample button: setIsParsing(true); setTimeout(..., 300)
TrySample ==
  /\ data = <<>>
  /\ Len(loads) < MaxLoads
  /\ isParsing' = TRUE
  /\ loads' = Append(loads, [via |-> "timer", log |-> <<>>, done |-> FALSE])
  /\ UNCHANGED <<parseVars, data, card, optVars>>

\* reader.onload: setData(parseLogFile(content)); setIsParsing(false).
\* Reads of different files finish in any order.
readerOnload(i, zone) ==
  /\ i \in pendingLoads
  /\ loads[i].via = "reader"
  /\ data' = <<dashboardOf(loads[i].log, <<>>, zone)>>
  /\ isParsing' = FALSE
  /\ loads' = [loads EXCEPT ![i].done = TRUE]
  /\ UNCHANGED <<parseVars, card, optVars>>

\* the timer callback: setData(parseLogFile(generateDemoLog()));
\* setIsParsing(false).  Timers of one delay fire in the order they were set.
sampleTimeout(i, demo, zone) ==
  /\ i \in pendingLoads
  /\ loads[i].via = "timer"
  /\ \A j \in pendingLoads : loads[j].via = "timer" => i <= j
  /\ data' = <<dashboardOf(demo, <<>>, zone)>>
  /\ isParsing' = FALSE
  /\ loads' = [loads EXCEPT ![i].done = TRUE, ![i].log = demo]
  /\ UNCHANGED <<parseVars, card, optVars>>

\* the "Change Log" button: setData(null)
ChangeLog ==
  /\ data # <<>>
  /\ data' = <<>>
  /\ UNCHANGED <<parseVars, card, loadVars, optVars>>

PickFile == \E file \in FileLogs : handleFileUpload(file)

FileRead == \E i \in 1..Len(loads), zone \in Zones : readerOnload(i, zone)

SampleReady ==
  \E i \in 1..Len(loads), demo \in DemoLogs, zone \in Zones : sampleTimeout(i, demo, zone)

NextLoad == PickFile \/ TrySample \/ FileRead \/ SampleReady \/ ChangeLog

LoadSpec == Init /\ [][NextLoad]_vars

\* ------------------------------------------------------------------------
\* The options tab: the options file written from the model
\* (generateOptionsFile) and read back into it (importOptionsFile).
\* A rule is { type, count, feature, groupOrUser, targetType, versionFilter }.
\* ------------------------------------------------------------------------

NewLine == "\n"

UpperChar(c) ==
  IF \E k \in 1..26 : LowerSeq[k] = c
  THEN UpperSeq[CHOOSE k \in 1..26 : LowerSeq[k] = c]
  ELSE c

\* String.prototype.toUpperCase
toUpperCase(s) == [i \in 1..Len(s) |-> UpperChar(s[i])]

\* `${k}` of an integer
RECURSIVE digitsOf(_)
digitsOf(k) ==
  IF k < 10 THEN <<Digits[k + 1]>>
  ELSE digitsOf(k \div 10) \o <<Digits[(k % 10) + 1]>>

numberText(k) == IF k < 0 THEN <<"-">> \o digitsOf(0 - k) ELSE digitsOf(k)

\* parseInt(s) of a token: an optional sign and the leading digits, NaN when
\* there is none (no token of the model starts with 0x)
parseIntFrom(s, from, sign) ==
  IF RunIn(s, from, Digit) < from THEN [nan |-> TRUE, v |-> 0]
  ELSE [nan |-> FALSE, v |-> sign * parseNum(SubSeq(s, from, RunIn(s, from, Digit)))]

parseInt(s) ==
  IF At(s, 1) = "-" THEN parseIntFrom(s, 2, 0 - 1)
  ELSE IF At(s, 1) = "+" THEN parseIntFrom(s, 2, 1)
  ELSE parseIntFrom(s, 1, 1)

\* parseInt(s) || dflt
parseIntOr(s, dflt) ==
  IF parseInt(s).nan \/ parseInt(s).v = 0 THEN dflt ELSE parseInt(s).v

\* Array.prototype.join
RECURSIVE join(_, _)
join(parts, sep) ==
  IF parts = <<>> THEN <<>>
  ELSE IF Len(parts) = 1 THEN parts[1]
  ELSE parts[1] \o sep \o join(Tail(parts), sep)

\* text.split('\n')
RECURSIVE splitLines(_)
splitLines(text) ==
  IF RunNotIn(text, 1, {NewLine}) >= Len(text) THEN <<text>>
  ELSE <<SubSeq(text, 1, RunNotIn(text, 1, {NewLine}))>>
       \o splitLines(SubSeq(text, RunNotIn(text, 1, {NewLine}) + 2, Len(text)))

\* line.split(/\s+/) of a trimmed, non-empty line
RECURSIVE splitSpaces(_)
splitSpaces(line) ==
  IF RunNotIn(line, 1, Space) >= Len(line) THEN <<line>>
  ELSE <<SubSeq(line, 1, RunNotIn(line, 1, Space))>>
       \o splitSpaces(SubSeq(line, RunIn(line, RunNotIn(line, 1, Space) + 1, Space) + 1,
                             Len(line)))

\* s.split(':')[0]
beforeColon(s) == SubSeq(s, 1, RunNotIn(s, 1, {":"}))

\* s.match(/:SWVERSION=(\d+)/i)?.[1] || ''
versionOf(s) ==
  IF digitsAfter(toUpperCase(s), <<":","S","W","V","E","R","S","I","O","N","=">>).ok
  THEN digitsAfter(toUpperCase(s), <<":","S","W","V","E","R","S","I","O","N","=">>).g1
  ELSE <<>>

\* formatDuration(mins) for mins = secs / 60
formatDuration(secs) ==
  IF secs = 0 THEN <<"0","m">>
  ELSE IF secs < 3600 THEN numberText((secs + 30) \div 60) \o <<"m">>
  ELSE numberText(secs \div 3600) \o <<"h"," ">>
       \o numberText(((secs % 3600) + 30) \div 60) \o <<"m">>

MAX == <<"M","A","X">>
RESERVE == <<"R","E","S","E","R","V","E">>
INCLUDE == <<"I","N","C","L","U","D","E">>
EXCLUDE == <<"E","X","C","L","U","D","E">>
INCLUDE_BORROW == <<"I","N","C","L","U","D","E","_","B","O","R","R","O","W">>
EXCLUDE_BORROW == <<"E","X","C","L","U","D","E","_","B","O","R","R","O","W">>
GROUP == <<"G","R","O","U","P">>
USER == <<"U","S","E","R">>
HOST == <<"H","O","S","T">>
INTERNET == <<"I","N","T","E","R","N","E","T">>
TIMEOUTALL == <<"T","I","M","E","O","U","T","A","L","L">>
TIMEOUT == <<"T","I","M","E","O","U","T">>

\* r.type === 'MAX' || r.type === 'RESERVE'
Counted == {MAX, RESERVE}
Uncounted == {INCLUDE, EXCLUDE, INCLUDE_BORROW, EXCLUDE_BORROW}

\* the values of the type and the targetType of a rule (the declared unions)
RuleTypes == Counted \cup Uncounted
TargetTypes == {GROUP, USER, HOST, INTERNET}

\* new Date().toLocaleDateString() on the day of the export
Today == <<"6","/","1","/","2","0","2","5">>

\* feat = r.versionFilter ? `${r.feature}:SWVERSION=${r.versionFilter}` : r.feature
featOf(r) ==
  IF r.versionFilter # <<>> THEN r.feature \o <<":","S","W","V","E","R","S","I","O","N","=">> \o r.versionFilter
  ELSE r.feature

\* the line of a rule
ruleLine(r) ==
  IF r.type \in Counted
  THEN join(<<r.type, numberText(r.count), featOf(r), r.targetType, r.groupOrUser>>, <<" ">>)
  ELSE join(<<r.type, featOf(r), r.targetType, r.groupOrUser>>, <<" ">>)

groupLine(g) == join(<<GROUP, g.name, join(g.users, <<" ">>)>>, <<" ">>)

timeoutLine(ft) == join(<<TIMEOUT, ft.feature, numberText(ft.seconds)>>, <<" ">>)

\* generateOptionsFile (the middle dot of the second comment line is written
\* as a dot)
generateOptionsFile ==
  join(<< <<"#"," ","S","o","l","i","d","N","e","t","W","o","r","k"," ","L","i","c","e","n","s","e"," ","O","p","t","i","o","n","s"," ","F","i","l","e"," ","(","s","w","_","d",".","o","p","t",")">>,
          <<"#"," ","G","e","n","e","r","a","t","e","d"," ","b","y"," ","S","N","L"," ","L","i","c","e","n","s","e"," ","D","a","s","h","b","o","a","r","d"," ","."," ">> \o Today,
          <<"#"," ","S","e","r","v","e","r",":"," ">> \o serverName,
          <<>> >>
       \o (IF optTimeoutEnabled
           THEN << <<"#"," ","R","e","t","u","r","n"," ","i","d","l","e"," ","l","i","c","e","n","s","e","s"," ","a","f","t","e","r"," ">> \o formatDuration(optTimeout)
                     \o <<" ","o","f"," ","i","n","a","c","t","i","v","i","t","y">>,
                   TIMEOUTALL \o <<" ">> \o numberText(optTimeout) >>
           ELSE << <<"#"," ","N","o"," ","g","l","o","b","a","l"," ","i","d","l","e"," ","t","i","m","e","o","u","t"," ","c","o","n","f","i","g","u","r","e","d">> >>)
       \o (IF Len(optFeatureTimeouts) > 0
           THEN << <<>>, <<"#"," ","P","e","r","-","f","e","a","t","u","r","e"," ","i","d","l","e"," ","t","i","m","e","o","u","t","s"," ","(","o","v","e","r","r","i","d","e"," ","g","l","o","b","a","l",")">> >>
                \o [i \in 1..Len(optFeatureTimeouts) |-> timeoutLine(optFeatureTimeouts[i])]
           ELSE <<>>)
       \o << <<>> >>
       \o (IF Len(optGroups) > 0
           THEN << <<"#"," ","U","s","e","r"," ","G","r","o","u","p","s">> >>
                \o [i \in 1..Len(SelectSeq(optGroups, LAMBDA g : Len(g.users) > 0)) |->
                      groupLine(SelectSeq(optGroups, LAMBDA g : Len(g.users) > 0)[i])]
                \o << <<>> >>
           ELSE <<>>)
       \o (IF Len(optRules) > 0
           THEN << <<"#"," ","L","i","c","e","n","s","e"," ","R","u","l","e","s">> >>
                \o [i \in 1..Len(optRules) |-> ruleLine(optRules[i])]
           ELSE <<>>),
       <<NewLine>>)

\* logUsers = Array.from(new Set(d.sessions.map(s => s.user))).sort(), and
\* detectedFeatures = Object.keys(d.featureStats); both read for membership
\* and for their first element only
logUsers == {data[1].sessions[i].user : i \in 1..Len(data[1].sessions)}

detectedFeatures == [k \in 1..Len(data[1].featureStats) |-> data[1].featureStats[k].name]

\* text.split('\n').map(l => l.trim()).filter(l => l && !l.startsWith('#'))
trimAll(ls) == [i \in 1..Len(ls) |-> trim(ls[i])]

directiveLines(text) ==
  SelectSeq(trimAll(splitLines(text)), LAMBDA l : l # <<>> /\ l[1] # "#")

\* parts = line.split(/\s+/) of every line read
partsOfAll(ls) == [i \in 1..Len(ls) |-> splitSpaces(ls[i])]

\* cmd = parts[0]?.toUpperCase()
cmdOf(parts) == toUpperCase(parts[1])

\* the branches of the loop (a part of a split trimmed line is never empty)
isTimeoutAll(parts) == cmdOf(parts) = TIMEOUTALL /\ Len(parts) >= 2
isTimeout(parts) == cmdOf(parts) = TIMEOUT /\ Len(parts) >= 3
isGroup(parts) == cmdOf(parts) = GROUP /\ Len(parts) >= 2
isCounted(parts) == cmdOf(parts) \in Counted /\ Len(parts) >= 5
isUncounted(parts) == cmdOf(parts) \in Uncounted /\ Len(parts) >= 4
isRule(parts) == isCounted(parts) \/ isUncounted(parts)

\* newFeatureTimeouts.push({ feature: parts[1], seconds: parseInt(parts[2]) || 3600 })
timeoutOfParts(parts) ==
  [feature |-> parts[2], seconds |-> parseIntOr(parts[3], DefaultTimeout)]

\* newGroups.push({ name: parts[1], users: parts.slice(2) })
groupOfParts(parts) == [name |-> parts[2], users |-> SubSeq(parts, 3, Len(parts))]

\* newRules.push({ ... }) of the two rule branches
ruleOfParts(parts) ==
  IF isCounted(parts)
  THEN [type |-> cmdOf(parts),
        count |-> parseIntOr(parts[2], 1),
        feature |-> beforeColon(parts[3]),
        targetType |-> toUpperCase(parts[4]),
        groupOrUser |-> parts[5],
        versionFilter |-> versionOf(parts[3])]
  ELSE [type |-> cmdOf(parts),
        count |-> 1,
        feature |-> beforeColon(parts[2]),
        targetType |-> toUpperCase(parts[3]),
        groupOrUser |-> parts[4],
        versionFilter |-> versionOf(parts[2])]

timeoutsOf(sel) == [i \in 1..Len(sel) |-> timeoutOfParts(sel[i])]
groupsOf(sel) == [i \in 1..Len(sel) |-> groupOfParts(sel[i])]
rulesOf(sel) == [i \in 1..Len(sel) |-> ruleOfParts(sel[i])]

newFeatureTimeouts(ps) == timeoutsOf(SelectSeq(ps, isTimeout))
newGroups(ps) == groupsOf(SelectSeq(ps, isGroup))
newRules(ps) == rulesOf(SelectSeq(ps, isRule))

\* users.forEach(u => { if (!logUsers.includes(u) && !newCustomUsers.includes(u))
\*   newCustomUsers.push(u); }) over the GROUP lines
membersOf(gs) == flatten([i \in 1..Len(gs) |-> gs[i].users])

newCustomUsers(ps) ==
  keysOf(SelectSeq(membersOf(newGroups(ps)), LAMBDA u : u \notin logUsers))

\* setOptTimeout(parseInt(parts[1]) || 3600) of the last TIMEOUTALL line
lastTimeout(sel) == parseIntOr(sel[Len(sel)][2], DefaultTimeout)

\* The state updates of importOptionsFile, for the parts of the lines read.
importParts(ps) ==
  /\ data # <<>>
  /\ optTimeoutEnabled' = (\E i \in 1..Len(ps) : isTimeoutAll(ps[i]))
  /\ optTimeout' = IF \E i \in 1..Len(ps) : isTimeoutAll(ps[i])
                   THEN lastTimeout(SelectSeq(ps, isTimeoutAll))
                   ELSE optTimeout
  /\ optFeatureTimeouts' = IF \E i \in 1..Len(ps) : isTimeout(ps[i])
                           THEN newFeatureTimeouts(ps) ELSE optFeatureTimeouts
  /\ optGroups' = IF \E i \in 1..Len(ps) : isGroup(ps[i])
                  THEN newGroups(ps) ELSE optGroups
  /\ optRules' = IF \E i \in 1..Len(ps) : isRule(ps[i])
                 THEN newRules(ps) ELSE optRules
  /\ customUsers' = IF newCustomUsers(ps) # <<>>
                    THEN keysOf(customUsers \o newCustomUsers(ps))
                    ELSE customUsers
  /\ UNCHANGED <<parseVars, data, card, loadVars>>

importOptionsFile(text) == importParts(partsOfAll(directiveLines(text)))

\* ------------------------------------------------------------------------
\* The rule editor of the options tab.
\* ------------------------------------------------------------------------

MaxRules == 2

XF == <<"x",":","f">>
ENG == <<"e","n","g">>
ZED == <<"z","e","d">>

\* The log behind the options tab: two users, two features.
OptionsLog ==
  << sessionOf(AL, W1, SWX, D0601, T0900, D0601, T1000),
     sessionOf(BO, W2, XF, D0601, T0945, D0601, T1000) >>

OpenOptions == Analyze(OptionsLog, <<>>, 0)

\* Number(e.target.value) of a number input: '' is 0
Number(s) ==
  IF s = <<>> THEN 0
  ELSE IF s[1] = "-" THEN 0 - parseNum(Tail(s))
  ELSE parseNum(s)

\* what the user selects or types in the rule editor
TypeChoices == {MAX, INCLUDE}
TypedCounts == {<<>>, <<"2">>}
TypedTargets == {ZED}

\* addRuleAndScroll(rule): setOptRules([...optRules, rule])
addRuleAndScroll(rule) ==
  /\ data # <<>>
  /\ Len(optRules) < MaxRules
  /\ optRules' = Append(optRules, rule)
  /\ UNCHANGED <<parseVars, data, card, loadVars, optTimeoutEnabled, optTimeout,
                 optFeatureTimeouts, optGroups, customUsers>>

\* detectedFeatures[0] || 'solidworks'
firstFeature == IF Len(detectedFeatures) > 0 THEN detectedFeatures[1] ELSE <<"s","o","l","i","d","w","o","r","k","s">>

\* the rule of the buttons "Reserve seats" and "Limit seats"
groupRule(kind, seats) ==
  [type |-> kind, count |-> seats, feature |-> firstFeature,
   groupOrUser |-> IF optGroups # <<>> THEN optGroups[1].name ELSE <<>>,
   targetType |-> IF Len(optGroups) > 0 THEN GROUP ELSE USER,
   versionFilter |-> <<>>]

AddReserve == data # <<>> /\ addRuleAndScroll(groupRule(RESERVE, 1))

AddMax == data # <<>> /\ addRuleAndScroll(groupRule(MAX, 3))

AddExclude ==
  /\ data # <<>>
  /\ addRuleAndScroll([type |-> EXCLUDE, count |-> 1, feature |-> firstFeature,
                       groupOrUser |-> <<>>, targetType |-> USER,
                       versionFilter |-> <<>>])

\* the duplicate button: addRuleAndScroll({ ...rule })
DuplicateRule == \E ri \in 1..Len(optRules) : addRuleAndScroll(optRules[ri])

\* setOptRules(r) after an edit of r[ri]
setOptRules(r) ==
  /\ data # <<>>
  /\ optRules' = r
  /\ UNCHANGED <<parseVars, data, card, loadVars, optTimeoutEnabled, optTimeout,
                 optFeatureTimeouts, optGroups, customUsers>>

\* the delete button: optRules.filter((_, i) => i !== ri)
DeleteRule ==
  \E ri \in 1..Len(optRules) :
    setOptRules(SubSeq(optRules, 1, ri - 1) \o SubSeq(optRules, ri + 1, Len(optRules)))

\* r[ri].type = e.target.value
SetRuleType ==
  \E ri \in 1..Len(optRules), t \in TypeChoices :
    setOptRules([optRules EXCEPT ![ri].type = t])

\* r[ri].count = Number(e.target.value), shown for MAX and RESERVE
SetRuleCount ==
  \E ri \in 1..Len(optRules), typed \in TypedCounts :
    /\ optRules[ri].type \in Counted
    /\ setOptRules([optRules EXCEPT ![ri].count = Number(typed)])

\* r[ri].feature = e.target.value
SetRuleFeature ==
  \E ri \in 1..Len(optRules) :
    \E f \in Range(detectedFeatures) :
      setOptRules([optRules EXCEPT ![ri].feature = f])

\* r[ri].targetType = e.target.value; HOST and INTERNET clear the target
SetTargetType ==
  \E ri \in 1..Len(optRules), t \in TargetTypes :
    setOptRules([optRules EXCEPT
                   ![ri].targetType = t,
                   ![ri].groupOrUser = IF t \in {HOST, INTERNET} THEN <<>> ELSE @])

\* r[ri].groupOrUser = e.target.value of the text inputs (any target but a group)
SetTarget ==
  \E ri \in 1..Len(optRules), typed \in TypedTargets :
    /\ optRules[ri].targetType # GROUP
    /\ setOptRules([optRules EXCEPT ![ri].groupOrUser = typed])

\* The options files imported while the kinds and counts are edited.
RuleTexts ==
  { <<"R","E","S","E","R","V","E"," ","2"," ","s","w","x"," ","G","R","O","U","P"," ","e","n","g">>,
    <<"#"," ","l","i","m","i","t","s">> \o <<NewLine, NewLine>> \o <<"m","a","x"," ","-","1"," ","s","w","x",":","S","W","V","E","R","S","I","O","N","=","2","0","2","4"," ","u","s","e","r"," ","a","l">>,
    <<"#"," ","n","o","n","e">> \o <<NewLine>> \o <<"R","E","S","E","R","V","E"," ","2"," ","s","w","x">> }

ImportRules == \E text \in RuleTexts : importOptionsFile(text)

\* the file written by the export is imported
Reimport == data # <<>> /\ importOptionsFile(generateOptionsFile)

\* Rules are added, duplicated and deleted, and their kind and count edited.
NextRule ==
  \/ OpenOptions \/ AddReserve \/ AddMax \/ AddExclude \/ DuplicateRule
  \/ DeleteRule \/ SetRuleType \/ SetRuleCount \/ ImportRules \/ Reimport

RuleSpec == Init /\ [][NextRule]_vars

\* The options files imported while the features and targets are edited.
TargetTexts ==
  { <<"R","E","S","E","R","V","E"," ","2"," ","s","w","x",":","S","W","V","E","R","S","I","O","N","=","2","0","2","4"," ","G","R","O","U","P"," ","e","n","g">>,
    <<"#"," ","h","o","s","t","s">> \o <<NewLine>> \o <<"E","X","C","L","U","D","E"," ","c","a","e"," ","P","R","O","J","E","C","T"," ","p","1"," ">> }

ImportTargets == \E text \in TargetTexts : importOptionsFile(text)

\* Reserve rules are added and deleted, and their feature and target edited.
NextTarget ==
  \/ OpenOptions \/ AddReserve \/ DeleteRule \/ SetRuleFeature \/ SetTargetType
  \/ SetTarget \/ ImportTargets \/ Reimport

TargetSpec == Init /\ [][NextTarget]_vars

\* ------------------------------------------------------------------------
\* The timeouts and the groups of the options tab.
\* ------------------------------------------------------------------------

MaxGroups == 1
MaxFeatureTimeouts == 1

\* Math.max(900, ...) of the custom timeout, and the seconds of a new
\* per-feature timeout
MinTimeout == 900
NewFeatureTimeout == 1800

\* what the user picks or types in the timeout and group editors
PresetTimeouts == {1800}
TypedSeconds == {<<>>}
TypedUsers == {<<" ","z","e","d"," ">>}

\* the parts of the options model the timeout and group editors leave alone
SetNoTimeout ==
  /\ data # <<>>
  /\ optTimeoutEnabled' = FALSE
  /\ UNCHANGED <<parseVars, data, card, loadVars, optTimeout, optFeatureTimeouts,
                 optGroups, optRules, customUsers>>

\* setOptTimeoutEnabled(true); setOptTimeout(o.v)
PresetTimeout ==
  /\ data # <<>>
  /\ optTimeoutEnabled' = TRUE
  /\ \E v \in PresetTimeouts : optTimeout' = v
  /\ UNCHANGED <<parseVars, data, card, loadVars, optFeatureTimeouts, optGroups,
                 optRules, customUsers>>

\* setOptTimeout(Math.max(900, Number(e.target.value)))
TypeTimeout ==
  /\ data # <<>>
  /\ optTimeoutEnabled
  /\ \E typed \in TypedSeconds : optTimeout' = Max({MinTimeout, Number(typed)})
  /\ UNCHANGED <<parseVars, data, card, loadVars, optTimeoutEnabled,
                 optFeatureTimeouts, optGroups, optRules, customUsers>>

setOptFeatureTimeouts(t) ==
  /\ data # <<>>
  /\ optFeatureTimeouts' = t
  /\ UNCHANGED <<parseVars, data, card, loadVars, optTimeoutEnabled, optTimeout,
                 optGroups, optRules, customUsers>>

AddFeatureTimeout ==
  /\ data # <<>>
  /\ Len(optFeatureTimeouts) < MaxFeatureTimeouts
  /\ setOptFeatureTimeouts(Append(optFeatureTimeouts,
       [feature |-> firstFeature, seconds |-> NewFeatureTimeout]))

\* t[fi].seconds = Number(e.target.value)
TypeFeatureTimeout ==
  \E fi \in 1..Len(optFeatureTimeouts), typed \in TypedSeconds :
    setOptFeatureTimeouts([optFeatureTimeouts EXCEPT ![fi].seconds = Number(typed)])

DeleteFeatureTimeout ==
  \E fi \in 1..Len(optFeatureTimeouts) :
    setOptFeatureTimeouts(SubSeq(optFeatureTimeouts, 1, fi - 1)
                          \o SubSeq(optFeatureTimeouts, fi + 1, Len(optFeatureTimeouts)))

\* setOptGroups(g), and setCustomUsers for a typed name
setOptGroups(g, custom) ==
  /\ data # <<>>
  /\ optGroups' = g
  /\ customUsers' = custom
  /\ UNCHANGED <<parseVars, data, card, loadVars, optTimeoutEnabled, optTimeout,
                 optFeatureTimeouts, optRules>>

\* { name: `group${optGroups.length + 1}`, users: [] }
AddGroup ==
  /\ Len(optGroups) < MaxGroups
  /\ setOptGroups(Append(optGroups,
                         [name |-> <<"g","r","o","u","p">> \o numberText(Len(optGroups) + 1),
                          users |-> <<>>]),
                  customUsers)

DeleteGroup ==
  \E gi \in 1..Len(optGroups) :
    setOptGroups(SubSeq(optGroups, 1, gi - 1) \o SubSeq(optGroups, gi + 1, Len(optGroups)),
                 customUsers)

\* detectedUsers = [...new Set([...logUsers, ...customUsers])], read for the
\* options of the select
detectedUsers == logUsers \cup Range(customUsers)

\* the select of a group: g[gi].users.push(e.target.value)
PickGroupUser ==
  /\ data # <<>>
  /\ \E gi \in 1..Len(optGroups) :
       \E u \in detectedUsers :
         /\ \A k \in 1..Len(optGroups[gi].users) : optGroups[gi].users[k] # u
         /\ setOptGroups([optGroups EXCEPT ![gi].users = Append(@, u)], customUsers)

\* the form of a group, for val = input.value.trim()
submitCustomUser(gi, val) ==
  /\ val # <<>>
  /\ \A k \in 1..Len(optGroups[gi].users) : optGroups[gi].users[k] # val
  /\ setOptGroups([optGroups EXCEPT ![gi].users = Append(@, val)],
                  IF val \in Range(customUsers) THEN customUsers
                  ELSE Append(customUsers, val))

TypeGroupUser ==
  \E gi \in 1..Len(optGroups), typed \in TypedUsers : submitCustomUser(gi, trim(typed))

\* a file of a comment, a blank line and a directive that is not one
CommentsOnly ==
  <<"#"," ","n","o","t","h","i","n","g"," ","t","o"," ","r","e","a","d">> \o <<NewLine, NewLine>> \o <<"F","O","O"," ","b","a","r">> \o <<NewLine>>

\* The options files imported into the tab.
OptionsTexts ==
  { CommentsOnly,
    <<"T","I","M","E","O","U","T","A","L","L"," ","7","2","0","0">> \o <<NewLine>> \o <<"T","I","M","E","O","U","T"," ","c","a","e"," ","0">> \o <<NewLine>>
      \o <<"G","R","O","U","P"," ","e","n","g"," ","a","l"," ","z","e","d"," ","z","e","d">> \o <<NewLine>>
      \o <<"R","E","S","E","R","V","E"," ","2"," ","s","w","x"," ","G","R","O","U","P"," ","e","n","g">> \o <<NewLine>>
      \o <<"E","X","C","L","U","D","E"," ","c","a","e"," ","U","S","E","R"," ","n","e","d">>,
    <<"G","R","O","U","P"," ","o","p","s"," ","z","e","d">> }

ImportOptions == \E text \in OptionsTexts : importOptionsFile(text)

NextOptions ==
  \/ OpenOptions \/ SetNoTimeout \/ PresetTimeout \/ TypeTimeout
  \/ AddFeatureTimeout \/ TypeFeatureTimeout \/ DeleteFeatureTimeout
  \/ AddGroup \/ DeleteGroup \/ PickGroupUser \/ TypeGroupUser
  \/ ImportOptions \/ Reimport

OptionsSpec == Init /\ [][NextOptions]_vars

\* ------------------------------------------------------------------------
\* Properties.
\* ------------------------------------------------------------------------
Last(s) == s[Len(s)]

\* the message of an entry, read off its raw line
MsgOf(e) == Facts[e.raw].message

\* the instant of an entry: its date (or the fallback date) and its time
StampOf(e) == stamp(e.date, currentYear, e.time)

\* the key string user@host:feature of a resolved entry
KeyOf(e) == e.user \o <<"@">> \o e.host \o <<":">> \o e.feature

IsKeyEvent(e, k) == e.type \in {"OUT", "IN"} /\ e.user # <<>> /\ KeyOf(e) = k

\* the OUT and IN events of key k so far, in log order
KeyEvents(k) == SelectSeq(entries, LAMBDA e : IsKeyEvent(e, k))

\* this step pushed one entry
Pushed == Len(entries') = Len(entries) + 1 /\ SubSeq(entries', 1, Len(entries)) = entries

NewEntry == entries'[Len(entries')]

NewIn == Pushed /\ NewEntry.type = "IN" /\ NewEntry.user # <<>>

SessionClosed(s) ==
  /\ "end" \in DOMAIN s
  /\ ~s.start.nan /\ ~s.end.nan /\ s.end.t >= s.start.t
  /\ ~s.duration.nan /\ s.duration.v >= 0
  /\ s.duration.v = s.end.t - s.start.t

\* each session is closed by an IN event of the log with its key and end
ClosedByReturn(list) ==
  /\ \A i \in 1..Len(list) :
       \E j \in 1..Len(entries) :
         /\ entries[j].type = "IN" /\ entries[j].user # <<>>
         /\ KeyOf(entries[j]) = KeyOf(list[i])
         /\ StampOf(entries[j]) = list[i].end
  /\ Len(list) <= Len(SelectSeq(entries, LAMBDA e : e.type = "IN" /\ e.user # <<>>))

\* C1: after any log, every session of the session list (and of the list
\* returned) is closed, with end >= start and duration >= 0, and was closed
\* by a return of the log: a checkout with no later return gives no session.
C1_SessionsClosed ==
  /\ \A i \in 1..Len(sessions) : SessionClosed(sessions[i])
  /\ ClosedByReturn(sessions)
  /\ data # <<>> => data[1].sessions = sessions

\* C1 witness: a log is parsed and returned with one session closed and
\* another checkout still open.
C1_Witness ==
  /\ data # <<>>
  /\ Len(data[1].sessions) = 1
  /\ DOMAIN openSessions # {}

TwoOutsPending(k) ==
  LET ev == KeyEvents(k)
  IN  Len(ev) >= 2 /\ ev[Len(ev)].type = "OUT" /\ ev[Len(ev) - 1].type = "OUT"

LastOut(k) == Last(KeyEvents(k))

\* C2 as claimed: after two OUT events of one key with no IN of the key
\* between them, the next IN of the key emits exactly one session, which
\* starts at the second OUT.
C2_Original ==
  [][(NewIn /\ TwoOutsPending(KeyOf(NewEntry)))
       => /\ Len(sessions') = Len(sessions) + 1
          /\ Last(sessions').start = StampOf(LastOut(KeyOf(NewEntry)))]_vars

SessionOf(out, st, en) ==
  [user |-> out.user, host |-> out.host, feature |-> out.feature,
   start |-> st, end |-> en, duration |-> [nan |-> FALSE, v |-> en.t - st.t]]

EmitsFrom(out, st, en) ==
  IF ~st.nan /\ ~en.nan /\ en.t >= st.t
  THEN sessions' = Append(sessions, SessionOf(out, st, en))
  ELSE sessions' = sessions

\* C2 amended: after two OUT events of one key with no IN of the key between
\* them, the next IN of the key emits exactly one session, which starts at
\* the second OUT, when its instant is valid and not earlier than that start,
\* and emits none otherwise; either way the key is no longer open, and an IN
\* of a key whose last event is an IN emits nothing.
C2_SecondOutWins ==
  [][/\ (NewIn /\ TwoOutsPending(KeyOf(NewEntry)))
          => /\ EmitsFrom(LastOut(KeyOf(NewEntry)),
                          StampOf(LastOut(KeyOf(NewEntry))), StampOf(NewEntry))
             /\ KeyOf(NewEntry) \notin DOMAIN openSessions'
     /\ (NewIn /\ KeyEvents(KeyOf(NewEntry)) # <<>>
               /\ LastOut(KeyOf(NewEntry)).type = "IN")
          => sessions' = sessions]_vars

\* C2 witness: two checkouts of one key at different instants, then its
\* return: the one session starts at the second checkout.
C2_Witness ==
  /\ Len(entries) = 3
  /\ entries[1].type = "OUT" /\ entries[1].user # <<>>
  /\ entries[2].type = "OUT" /\ entries[2].user # <<>>
  /\ entries[3].type = "IN" /\ entries[3].user # <<>>
  /\ KeyOf(entries[1]) = KeyOf(entries[2]) /\ KeyOf(entries[2]) = KeyOf(entries[3])
  /\ StampOf(entries[1]) # StampOf(entries[2])
  /\ Len(sessions) = 1
  /\ sessions[1].start = StampOf(entries[2])
  /\ DOMAIN openSessions = {}

\* C3: an IN event whose key user@host:feature is not open leaves the
\* session list and the open-session map unchanged; only the entry is pushed.
C3_UnmatchedReturnIgnored ==
  [][(NewIn /\ KeyOf(NewEntry) \notin DOMAIN openSessions)
       => sessions' = sessions /\ openSessions' = openSessions]_vars

\* C3 witness: a return of a key never checked out, while another checkout
\* of the same user and host is open.
C3_Witness ==
  /\ Len(entries) = 2
  /\ entries[1].type = "OUT" /\ entries[1].user # <<>>
  /\ entries[2].type = "IN" /\ entries[2].user # <<>>
  /\ entries[2].user = entries[1].user /\ entries[2].host = entries[1].host
  /\ KeyOf(entries[2]) # KeyOf(entries[1])
  /\ sessions = <<>>
  /\ DOMAIN openSessions = {KeyOf(entries[1])}

\* C4: an IN event that matches an open session and whose instant is earlier
\* than the session's start emits no session and removes the open entry (so,
\* by C3, no later IN can close that checkout).
C4_NegativePairDiscarded ==
  [][(/\ NewIn
      /\ KeyOf(NewEntry) \in DOMAIN openSessions
      /\ ~StampOf(NewEntry).nan
      /\ ~openSessions[KeyOf(NewEntry)].start.nan
      /\ StampOf(NewEntry).t < openSessions[KeyOf(NewEntry)].start.t)
       => /\ sessions' = sessions
          /\ DOMAIN openSessions' = DOMAIN openSessions \ {KeyOf(NewEntry)}
          /\ \A k \in DOMAIN openSessions' : openSessions'[k] = openSessions[k]]_vars

\* C4 witness: a checkout, then a return of the key at an earlier instant:
\* no session, nothing open.
C4_Witness ==
  /\ Len(entries) = 2
  /\ entries[1].type = "OUT" /\ entries[1].user # <<>>
  /\ entries[2].type = "IN" /\ entries[2].user # <<>>
  /\ KeyOf(entries[1]) = KeyOf(entries[2])
  /\ ~StampOf(entries[1]).nan /\ ~StampOf(entries[2]).nan
  /\ StampOf(entries[2]).t < StampOf(entries[1]).t
  /\ sessions = <<>>
  /\ DOMAIN openSessions = {}

HasStamp(msg) == includes(msg, TIMESTAMP_LIT)

HasBanner(msg) == includes(msg, FLEXNET_LIT)

HasError(msg) == includes(toLowerCase(msg), ERROR_LIT) \/ includes(msg, EXITING_LIT)

\* the first kind, in the priority order, whose marker occurs in msg;
\* none when no marker occurs
MarkerKind(msg) ==
  IF includes(msg, OUT_LIT) THEN "OUT"
  ELSE IF includes(msg, IN_LIT) THEN "IN"
  ELSE IF includes(msg, DENIED_LIT) THEN "DENIED"
  ELSE IF includes(msg, UNSUPPORTED_LIT) THEN "UNSUPPORTED"
  ELSE IF includes(msg, RESERVING_LIT) THEN "RESERVING"
  ELSE IF HasError(msg) THEN "ERROR"
  ELSE "none"

\* C5: a line that matches the base grammar and whose message holds neither
\* the TIMESTAMP marker nor the version banner appends exactly one event,
\* whose kind is the first of OUT, IN, DENIED, UNSUPPORTED, RESERVING, ERROR
\* whose marker occurs in the message, and INFO when none occurs.
C5_KindByPriority ==
  [][\A line \in KindLines :
       (/\ ParseLine(line)
        /\ Facts[line].ok
        /\ ~HasStamp(Facts[line].message)
        /\ ~HasBanner(Facts[line].message))
         => /\ Pushed
            /\ NewEntry.raw = line
            /\ NewEntry.type =
                 IF MarkerKind(Facts[line].message) = "none" THEN "INFO"
                 ELSE MarkerKind(Facts[line].message)]_vars

\* C5 witness: a line whose message holds the IN: marker and, after it, the
\* OUT: marker and 'error' was read as an OUT event, and a line with no
\* marker as an INFO event.
C5_Witness ==
  /\ Len(entries) = 2
  /\ ~HasStamp(MsgOf(entries[1])) /\ ~HasBanner(MsgOf(entries[1]))
  /\ includes(MsgOf(entries[1]), IN_LIT) /\ includes(MsgOf(entries[1]), OUT_LIT)
  /\ HasError(MsgOf(entries[1]))
  /\ entries[1].type = "OUT"
  /\ ~HasStamp(MsgOf(entries[2])) /\ ~HasBanner(MsgOf(entries[2]))
  /\ MarkerKind(MsgOf(entries[2])) = "none"
  /\ entries[2].type = "INFO"

\* C6 as claimed: every event whose message holds the TIMESTAMP marker has
\* kind TIMESTAMP, and every event whose message holds the version banner
\* and no TIMESTAMP marker has kind VERSION, whatever else the message holds.
C6_Original ==
  \A i \in 1..Len(entries) :
    /\ HasStamp(MsgOf(entries[i])) => entries[i].type = "TIMESTAMP"
    /\ (HasBanner(MsgOf(entries[i])) /\ ~HasStamp(MsgOf(entries[i])))
         => entries[i].type = "VERSION"

\* C6 amended: an event whose message holds none of the markers OUT:, IN:,
\* DENIED:, UNSUPPORTED, RESERVING, 'error' and EXITING has kind VERSION when
\* the message holds the version banner (with or without the TIMESTAMP
\* marker) and kind TIMESTAMP when it holds the TIMESTAMP marker and no
\* banner; when one of those markers occurs, the kind is that marker's kind
\* and neither TIMESTAMP nor VERSION.
C6_StampAndBannerKinds ==
  \A i \in 1..Len(entries) :
    /\ (MarkerKind(MsgOf(entries[i])) = "none" /\ HasBanner(MsgOf(entries[i])))
         => entries[i].type = "VERSION"
    /\ (/\ MarkerKind(MsgOf(entries[i])) = "none"
        /\ HasStamp(MsgOf(entries[i])) /\ ~HasBanner(MsgOf(entries[i])))
         => entries[i].type = "TIMESTAMP"
    /\ (/\ MarkerKind(MsgOf(entries[i])) # "none"
        /\ (HasStamp(MsgOf(entries[i])) \/ HasBanner(MsgOf(entries[i]))))
         => entries[i].type = MarkerKind(MsgOf(entries[i]))

\* C6 witness: a message with the banner and the TIMESTAMP marker was read
\* as VERSION, and a message with the banner and 'error' as ERROR.
C6_Witness ==
  /\ Len(entries) = 2
  /\ HasStamp(MsgOf(entries[1])) /\ HasBanner(MsgOf(entries[1]))
  /\ entries[1].type = "VERSION"
  /\ HasBanner(MsgOf(entries[2])) /\ HasError(MsgOf(entries[2]))
  /\ entries[2].type = "ERROR"

\* the marker of the branch that decides the kind of msg, among OUT:, IN:
\* and DENIED:
BranchMarker(msg) ==
  IF includes(msg, OUT_LIT) THEN OUT_LIT
  ELSE IF includes(msg, IN_LIT) THEN IN_LIT
  ELSE DENIED_LIT

\* C8: a line whose kind is decided by an OUT:, IN: or DENIED: marker and
\* whose message does not match the feature user@host sub-pattern after that
\* marker gives an event of that kind with feature, user and host unset; the
\* event is pushed on the entry list, and the open-session map and the
\* session list are unchanged.
C8_UnresolvedEventKept ==
  [][\A line \in KindLines :
       (/\ ParseLine(line)
        /\ Facts[line].ok
        /\ MarkerKind(Facts[line].message) \in {"OUT", "IN", "DENIED"}
        /\ ~partsMatch(Facts[line].message,
                       BranchMarker(Facts[line].message)).ok)
         => /\ Pushed
            /\ NewEntry.raw = line
            /\ NewEntry.type = MarkerKind(Facts[line].message)
            /\ NewEntry.feature = <<>> /\ NewEntry.user = <<>> /\ NewEntry.host = <<>>
            /\ sessions' = sessions
            /\ openSessions' = openSessions]_vars

\* C8 witness: with a checkout open, an IN: line without user@host was read:
\* the event is kept with its fields unset and the checkout is still open.
C8_Witness ==
  /\ Len(entries) = 2
  /\ entries[1].type = "OUT" /\ entries[1].user # <<>>
  /\ entries[2].type = "IN"
  /\ ~partsMatch(MsgOf(entries[2]), IN_LIT).ok
  /\ entries[2].feature = <<>> /\ entries[2].user = <<>> /\ entries[2].host = <<>>
  /\ DOMAIN openSessions = {KeyOf(entries[1])}
  /\ sessions = <<>>

\* the M/D/YYYY date in the message of each line, TIMESTAMP line or not
DateHeld ==
  [line \in AllLines |-> IF Facts[line].ok THEN dateMatch(Facts[line].message) ELSE NoMatch]

StampLines == {line \in AllLines : Facts[line].ok /\ HasStamp(Facts[line].message)}

\* entry j is a TIMESTAMP line that holds a parsable M/D/YYYY date
Dated(j) == entries[j].raw \in StampLines /\ DateHeld[entries[j].raw].ok

\* the date of the most recent dated TIMESTAMP line at or before entry i,
\* and none when there is no such line
RunningDate(i, none) ==
  IF \E j \in 1..i : Dated(j)
  THEN DateHeld[entries[CHOOSE j \in 1..i :
                           Dated(j) /\ \A k \in 1..i : Dated(k) => k <= j].raw].g1
  ELSE none

\* C7 as claimed: every event carries the date of the most recent TIMESTAMP
\* line at or before it that held a parsable date, and 1/1/<current year>
\* when no such line precedes it.
C7_Original ==
  \A i \in 1..Len(entries) :
    entries[i].date = RunningDate(i, <<"1", "/", "1", "/">> \o yearString(currentYear))

\* C7 amended: every event carries the date of the most recent TIMESTAMP
\* line at or before it that held a parsable M/D/YYYY date, and the empty
\* date when no such line precedes it; a TIMESTAMP line without a parsable
\* date leaves the running date unchanged.
C7_RunningDate ==
  /\ \A i \in 1..Len(entries) : entries[i].date = RunningDate(i, <<>>)
  /\ currentDate = RunningDate(Len(entries), <<>>)

\* C7 witness: an event before any TIMESTAMP line (empty date), a dated
\* TIMESTAMP line, and a TIMESTAMP line without a date, which carries the
\* date of the line before it.
C7_Witness ==
  /\ Len(entries) = 3
  /\ entries[1].raw \notin StampLines /\ DateHeld[entries[1].raw].ok
  /\ entries[1].date = <<>>
  /\ Dated(2) /\ entries[2].date = DateHeld[entries[2].raw].g1
  /\ entries[3].raw \in StampLines /\ ~DateHeld[entries[3].raw].ok
  /\ entries[3].date = entries[2].date
  /\ currentDate = entries[2].date

\* what the lines read so far hold for a metadata field, in log order
VersionsRead == [j \in 1..Len(entries) |-> Facts[entries[j].raw].version]

PortsRead == [j \in 1..Len(entries) |-> Facts[entries[j].raw].port]

VendorPortsRead == [j \in 1..Len(entries) |-> Facts[entries[j].raw].vendorPort]

PidsRead == [j \in 1..Len(entries) |-> Facts[entries[j].raw].pid]

LogPathsRead == [j \in 1..Len(entries) |-> Facts[entries[j].raw].logPath]

Matching(ms) == {j \in 1..Len(ms) : ms[j].ok}

FirstValue(ms) ==
  IF Matching(ms) = {} THEN Unknown
  ELSE ms[CHOOSE j \in Matching(ms) : \A k \in Matching(ms) : j <= k].g1

LastValue(ms) ==
  IF Matching(ms) = {} THEN Unknown
  ELSE ms[CHOOSE j \in Matching(ms) : \A k \in Matching(ms) : k <= j].g1

DailyPeaksOf(c) == concurrentUsage(c.sessions, data[1].zone)

\* s is in ascending order
Ascending(s) == \A i, j \in 1..Len(s) : i < j => s[i] <= s[j]

\* s[Math.floor(Len(s) * num / 100)], counting from 0
SampleAt(s, num) == s[((Len(s) * num) \div 100) + 1]

\* C11: for every feature and list of closed sessions of the feature, the
\* largest concurrency sample is the peak reported and is >= every daily
\* peak reported for those sessions, peak >= p95 >= p90 >= p50, and the
\* percentiles are the samples, sorted, at the indices floor(0.95 n),
\* floor(0.9 n) and floor(0.5 n).
C11_PeakAndPercentiles ==
  (card # <<>> /\ card[1].sessions # <<>>) =>
    /\ Len(card[1].samples) = 2 * Len(card[1].sessions)
    /\ Ascending(card[1].samples)
    /\ card[1].featurePeak = card[1].samples[Len(card[1].samples)]
    /\ \A e \in Range(DailyPeaksOf(card[1])) :
         e.concurrent <= card[1].featurePeak
    /\ card[1].featurePeak >= card[1].p95
    /\ card[1].p95 >= card[1].p90
    /\ card[1].p90 >= card[1].p50
    /\ card[1].p95 = SampleAt(card[1].samples, 95)
    /\ card[1].p90 = SampleAt(card[1].samples, 90)
    /\ card[1].p50 = SampleAt(card[1].samples, 50)

\* C11 witness: a card of three sessions with peak 3, a median below the
\* peak and a day whose reported peak is below the peak.
C11_Witness ==
  /\ card # <<>>
  /\ Len(card[1].sessions) = 3
  /\ card[1].featurePeak = 3
  /\ card[1].p50 < card[1].p90
  /\ \E e \in Range(DailyPeaksOf(card[1])) :
       e.concurrent < card[1].featurePeak

\* the number of the UTC day of instant t, and the first instant of a day
DayNumber(t, zone) == (t + zone) \div 86400
DayStart(dnum, zone) == dnum * 86400 - zone

\* the instants of a day at which the number of open sessions can reach its
\* maximum: the first one and those at which a session starts
InstantsOf(ss, dnum, zone) ==
  {DayStart(dnum, zone)}
    \cup {ss[i].start.t : i \in {j \in 1..Len(ss) : DayNumber(ss[j].start.t, zone) = dnum}}

\* the sessions open at instant t, a session being open from its start to
\* just before its end, and those open or ending at t
OpenAt(ss, t) == Cardinality({i \in 1..Len(ss) : ss[i].start.t <= t /\ t < ss[i].end.t})
OpenOrEndingAt(ss, t) == Cardinality({i \in 1..Len(ss) : ss[i].start.t <= t /\ t <= ss[i].end.t})

\* the days on which a session starts or ends
EventDayNumbers(ss, zone) ==
  {DayNumber(ss[i].start.t, zone) : i \in 1..Len(ss)}
    \cup {DayNumber(ss[i].end.t, zone) : i \in 1..Len(ss)}

\* the entries of the daily peak series for a day
DayReported(d, dnum) ==
  {e \in Range(d.concurrentUsage) : e.time = isoOf(civilFromDays(dnum))}

\* the value reported for a day is the maximum number of sessions open at an
\* instant of the day, sessions that end at the instant counted or not
DayPeakIsMaximum(d, ss, dnum) ==
  \A e \in DayReported(d, dnum) :
    /\ e.concurrent >= Max({OpenAt(ss, t) : t \in InstantsOf(ss, dnum, d.zone)})
    /\ e.concurrent <= Max({OpenOrEndingAt(ss, t) : t \in InstantsOf(ss, dnum, d.zone)})

\* C12: for every day of the daily peak-concurrency series, the value reported
\* is the maximum number of sessions open at one instant of that day, sessions
\* that started on an earlier day included.
C12_DailyPeakIsMaximum ==
  data # <<>> =>
    \A dnum \in EventDayNumbers(validSessions(data[1].sessions), data[1].zone) :
      DayPeakIsMaximum(data[1], validSessions(data[1].sessions), dnum)

\* the lower ends of the six duration buckets, in minutes
BucketFrom == <<0, 15, 60, 120, 240, 480>>

\* the sessions of ss whose duration is in bucket k: at least BucketFrom[k]
\* minutes and, but for the last bucket, less than BucketFrom[k + 1] minutes
InBucket(ss, k) ==
  {i \in 1..Len(ss) :
     /\ BucketFrom[k] * 60 <= ss[i].duration.v
     /\ k < 6 => ss[i].duration.v < BucketFrom[k + 1] * 60}

\* C14: the duration histogram has the six buckets [0,15), [15,60), [60,120),
\* [120,240), [240,480), [480,inf) in that order, every session is counted in
\* the one bucket that holds its duration, and the counts sum to the number of
\* sessions.
C14_DurationBuckets ==
  data # <<>> =>
    /\ [k \in 1..Len(data[1].durationDistribution) |-> data[1].durationDistribution[k].bucket]
         = BucketNames
    /\ \A k \in 1..6 :
         data[1].durationDistribution[k].count = Cardinality(InBucket(data[1].sessions, k))
    /\ \A i \in 1..Len(data[1].sessions) :
         Cardinality({k \in 1..6 : i \in InBucket(data[1].sessions, k)}) = 1
    /\ sumSeq([k \in 1..6 |-> data[1].durationDistribution[k].count]) = Len(data[1].sessions)

\* C14 witness: a session of no time, one of exactly 15 minutes and one that
\* ran over midnight are counted in the first, the second and the last bucket.
C14_Witness ==
  /\ data # <<>>
  /\ Len(data[1].sessions) = 3
  /\ \E i \in 1..3 : data[1].sessions[i].duration.v = 15 * 60
  /\ data[1].durationDistribution[1].count = 1
  /\ data[1].durationDistribution[2].count = 1
  /\ data[1].durationDistribution[6].count = 1

\* the entries of series are those of the different keys, each with the
\* number of times its key occurs
OnePerKey(series, keys) ==
  /\ \A k, l \in 1..Len(series) : series[k].time = series[l].time => k = l
  /\ {series[k].time : k \in 1..Len(series)} = Range(keys)
  /\ \A k \in 1..Len(series) :
       series[k].count = Cardinality({i \in 1..Len(keys) : keys[i] = series[k].time})
  /\ sumSeq([k \in 1..Len(series) |-> series[k].count]) = Len(keys)

\* the day of a session is the UTC day of its start, the day of a denial the
\* date it was read under
SessionDays(d) == [i \in 1..Len(d.sessions) |-> isoDay(d.sessions[i].start, d.zone)]
DenialDays(d) ==
  [i \in 1..Len(d.denials) |-> IF d.denials[i].date = <<>> THEN Unknown ELSE d.denials[i].date]

\* the instant at which the day written M/D/YYYY begins
DateInstant(date) == newDate(date \o <<" ">> \o <<"0",":","0","0",":","0","0">>).t

\* an entry of the checkout series is before another only if the sessions of
\* its day start on an earlier day
SessionsChronological(d) ==
  \A k, l \in 1..Len(d.timeSeriesUsage) : k < l =>
    \A i, j \in 1..Len(d.sessions) :
      (SessionDays(d)[i] = d.timeSeriesUsage[k].time /\ SessionDays(d)[j] = d.timeSeriesUsage[l].time)
        => DayNumber(d.sessions[i].start.t, d.zone) < DayNumber(d.sessions[j].start.t, d.zone)

\* an entry of the denial series is before another only if its date is the
\* earlier one; denials without a date are left aside
DenialsChronological(d) ==
  \A k, l \in 1..Len(d.denialsByDay) : k < l =>
    \A i, j \in 1..Len(d.denials) :
      (/\ d.denials[i].date # <<>> /\ d.denials[j].date # <<>>
       /\ d.denials[i].date = d.denialsByDay[k].time
       /\ d.denials[j].date = d.denialsByDay[l].time)
        => DateInstant(d.denials[i].date) < DateInstant(d.denials[j].date)

\* C13: the daily checkout series and the daily denial series each hold one
\* entry per distinct day, their counts sum to the number of sessions and of
\* denials, and each series is in chronological order.
C13_DailySeries ==
  data # <<>> =>
    /\ OnePerKey(data[1].timeSeriesUsage, SessionDays(data[1]))
    /\ OnePerKey(data[1].denialsByDay, DenialDays(data[1]))
    /\ SessionsChronological(data[1])
    /\ DenialsChronological(data[1])

\* the users of ss that have a session of feature a and one of feature b
UsersOfBoth(ss, a, b) ==
  {u \in {ss[i].user : i \in 1..Len(ss)} :
     /\ \E i \in 1..Len(ss) : ss[i].user = u /\ ss[i].feature = a
     /\ \E i \in 1..Len(ss) : ss[i].user = u /\ ss[i].feature = b}

FeaturesIn(ss) == {ss[i].feature : i \in 1..Len(ss)}

\* C15: in the co-usage output every pair of distinct features appears at
\* most once, written with the lexically smaller feature first, never as both
\* "A + B" and "B + A", and its count is the number of users who have a
\* session of each of the two features.
C15_CanonicalPairs ==
  data # <<>> =>
    /\ \A k, l \in 1..Len(data[1].featureCoUsage) :
         data[1].featureCoUsage[k].pair = data[1].featureCoUsage[l].pair => k = l
    /\ \A k \in 1..Len(data[1].featureCoUsage) :
         \E a, b \in FeaturesIn(data[1].sessions) :
           /\ strLess(a, b)
           /\ data[1].featureCoUsage[k].pair = a \o <<" ","+"," ">> \o b
           /\ data[1].featureCoUsage[k].count = Cardinality(UsersOfBoth(data[1].sessions, a, b))
    /\ \A a, b \in FeaturesIn(data[1].sessions) :
         ~ /\ \E k \in 1..Len(data[1].featureCoUsage) : data[1].featureCoUsage[k].pair = a \o <<" ","+"," ">> \o b
           /\ \E k \in 1..Len(data[1].featureCoUsage) : data[1].featureCoUsage[k].pair = b \o <<" ","+"," ">> \o a

\* C15 witness: two users have used the same two features, in different
\* orders, and the one pair is reported with count 2.
C15_Witness ==
  /\ data # <<>>
  /\ Len(data[1].sessions) = 4
  /\ data[1].sessions[1].feature = SWX /\ data[1].sessions[2].feature = SIM
  /\ data[1].sessions[3].feature = SIM /\ data[1].sessions[4].feature = SWX
  /\ Len(data[1].featureCoUsage) = 1
  /\ data[1].featureCoUsage[1].count = 2

\* C16: the co-usage output holds at most 10 pairs, is ordered by count
\* descending with ties broken lexicographically by pair name, and no pair
\* left out has a greater count than a pair reported.
C16_TopPairsOrder ==
  data # <<>> =>
    /\ Len(data[1].featureCoUsage) <= 10
    /\ \A k, l \in 1..Len(data[1].featureCoUsage) : k < l =>
         \/ data[1].featureCoUsage[k].count > data[1].featureCoUsage[l].count
         \/ /\ data[1].featureCoUsage[k].count = data[1].featureCoUsage[l].count
            /\ strLess(data[1].featureCoUsage[k].pair, data[1].featureCoUsage[l].pair)
    /\ \A a, b \in FeaturesIn(data[1].sessions) :
         (/\ strLess(a, b)
          /\ UsersOfBoth(data[1].sessions, a, b) # {}
          /\ \A k \in 1..Len(data[1].featureCoUsage) : data[1].featureCoUsage[k].pair # a \o <<" ","+"," ">> \o b)
           => \A k \in 1..Len(data[1].featureCoUsage) :
                Cardinality(UsersOfBoth(data[1].sessions, a, b)) <= data[1].featureCoUsage[k].count

\* the denial count the statistics hold for a name, 0 when they hold none
DenialCount(stats, name) ==
  sumSeq([k \in 1..Len(stats) |-> IF stats[k].name = name THEN stats[k].denials ELSE 0])

\* the sessions of ss whose field fld is name, and their total duration
SessionsWith(ss, fld, name) == {i \in 1..Len(ss) : ss[i][fld] = name}
DurationWith(ss, fld, name) ==
  sumSeq([i \in 1..Len(ss) |-> IF ss[i][fld] = name THEN ss[i].duration.v ELSE 0])

\* the denial with a feature and a user that is read after the denials of dn
\* adds one to the denial count of its feature and of its user
DenialAddsOne(ss, dn, den) ==
  /\ DenialCount(featureStats(ss, dn \o <<den>>), den.feature)
       = DenialCount(featureStats(ss, dn), den.feature) + 1
  /\ DenialCount(userStats(ss, dn \o <<den>>), den.user)
       = DenialCount(userStats(ss, dn), den.user) + 1

\* C17: a DENIED event with a feature and a user adds exactly one to the
\* denial count of that feature and of that user and changes no checkout
\* count, session count or total duration: these are those of the sessions
\* alone, and the per-feature checkouts, the per-user sessions and the
\* per-host sessions each sum to the number of sessions.
C17_DenialsLeaveUsage ==
  data # <<>> =>
    /\ \A k \in 1..Len(data[1].denials) :
         (data[1].denials[k].feature # <<>> /\ data[1].denials[k].user # <<>>)
           => DenialAddsOne(data[1].sessions, SubSeq(data[1].denials, 1, k - 1),
                            data[1].denials[k])
    /\ \A st \in Range(data[1].featureStats) :
         /\ st.checkouts = Cardinality(SessionsWith(data[1].sessions, "feature", st.name))
         /\ st.totalDuration = DurationWith(data[1].sessions, "feature", st.name)
    /\ \A st \in Range(data[1].userStats) :
         /\ st.sessions = Cardinality(SessionsWith(data[1].sessions, "user", st.name))
         /\ st.totalDuration = DurationWith(data[1].sessions, "user", st.name)
    /\ \A st \in Range(data[1].hostStats) :
         /\ st.sessions = Cardinality(SessionsWith(data[1].sessions, "host", st.name))
         /\ st.totalDuration = DurationWith(data[1].sessions, "host", st.name)
    /\ sumSeq([k \in 1..Len(data[1].featureStats) |-> data[1].featureStats[k].checkouts])
         = Len(data[1].sessions)
    /\ sumSeq([k \in 1..Len(data[1].userStats) |-> data[1].userStats[k].sessions])
         = Len(data[1].sessions)
    /\ sumSeq([k \in 1..Len(data[1].hostStats) |-> data[1].hostStats[k].sessions])
         = Len(data[1].sessions)

\* C17 witness: four denials, one without feature and user, one of a feature
\* that has a session and two of a feature and a user that have none, next to
\* three sessions.
C17_Witness ==
  /\ data # <<>>
  /\ Len(data[1].sessions) = 3
  /\ Len(data[1].denials) = 4
  /\ \E st \in Range(data[1].featureStats) : st.checkouts = 2 /\ st.denials = 1
  /\ \E st \in Range(data[1].featureStats) : st.checkouts = 0 /\ st.denials = 2
  /\ \E st \in Range(data[1].userStats) : st.sessions = 0 /\ st.denials = 2
  /\ sumSeq([k \in 1..Len(data[1].featureStats) |-> data[1].featureStats[k].denials]) = 3

\* the six classes of a card, in the order over-utilized, at-capacity,
\* over-provisioned, under-utilized, right-sized, needs-seat-data; the last
\* two are the badges shown when none of the first four holds
ClassesOf(c) ==
  <<c.isOverUtilized, c.isAtCapacity, c.isOverProvisioned, c.isUnderUtilized,
    c.badge = "Right-Sized", c.badge = "Needs Seat Count">>

\* C18: for every feature, seat count (known or not), peak, p90, number of
\* checkouts and of denials, exactly one of the six classes over-utilized,
\* at-capacity, over-provisioned, under-utilized, right-sized and
\* needs-seat-data holds.
C18_ExactlyOneClass ==
  card # <<>> =>
    /\ Cardinality({k \in 1..6 : ClassesOf(card[1])[k]}) = 1
    /\ card[1].badge = "Needs More Seats" <=> card[1].isOverUtilized
    /\ card[1].badge = "At Capacity" <=> card[1].isAtCapacity
    /\ card[1].badge = "Potential Savings"
         <=> (card[1].isOverProvisioned \/ card[1].isUnderUtilized)
    /\ card[1].badge = "Right-Sized" => card[1].totalSeats > 0
    /\ card[1].badge = "Needs Seat Count" => card[1].totalSeats = 0

\* C18 witness: a feature with denials whose peak of 3 is below its 4 seats
\* is right-sized.
C18_Witness ==
  /\ card # <<>>
  /\ card[1].badge = "Right-Sized"
  /\ card[1].denials >= 1
  /\ card[1].featurePeak = 3
  /\ card[1].totalSeats = 4

\* C19: a feature is under-utilized only when it has no seat data, its peak
\* is at least 3, its p90 at most ceil(0.4 * peak) and it has no denial; a
\* feature with a known seat count is never under-utilized.
C19_UnderUtilizedWithoutSeats ==
  (card # <<>> /\ card[1].isUnderUtilized) =>
    /\ card[1].totalSeats = 0
    /\ card[1].featurePeak >= 3
    /\ 10 * card[1].p90 <= 4 * card[1].featurePeak + 9
    /\ card[1].denials = 0

\* the denials of feature f
FeatureDenials(d, f) == SelectSeq(d.denials, LAMBDA den : den.feature = f)

\* the instant of a denial that has a date and a time
DenialInstant(den) == newDate(den.date \o <<" ">> \o den.time).t

\* the gaps from a denial to the later checkouts of its user among fs
NextGaps(fs, den) ==
  {fs[i].start.t - DenialInstant(den) :
     i \in {j \in 1..Len(fs) : fs[j].user = den.user /\ fs[j].start.t > DenialInstant(den)}}

\* the gap of a denial is counted when the denial has a user, a date and a
\* time, its user checks out later, and the next such checkout comes within
\* (0, 240] minutes
GapCounted(fs, den) ==
  /\ den.user # <<>> /\ den.date # <<>> /\ den.time # <<>>
  /\ NextGaps(fs, den) # {}
  /\ Min(NextGaps(fs, den)) > 0
  /\ Min(NextGaps(fs, den)) <= 240 * 60

CountedGaps(fs, dens) ==
  [k \in 1..Len(SelectSeq(dens, LAMBDA den : GapCounted(fs, den))) |->
     Min(NextGaps(fs, SelectSeq(dens, LAMBDA den : GapCounted(fs, den))[k]))]

\* the element at index floor(n / 2), from 0, of the n gaps in ascending order
MiddleGap(w) ==
  CHOOSE v \in Range(w) :
    /\ Cardinality({i \in 1..Len(w) : w[i] < v}) <= Len(w) \div 2
    /\ Cardinality({i \in 1..Len(w) : w[i] <= v}) > Len(w) \div 2

\* the median of the gaps when there are at least 3, and 45 minutes otherwise
MedianOr45(w) == IF Len(w) >= 3 THEN MiddleGap(w) ELSE 45 * 60

\* C20 as stated: for an over-utilized feature a gap is counted only if it
\* lies in (0, 240] minutes, and the wait per denial that enters the
\* productivity-loss estimate is the median of the counted gaps when at least
\* 3 exist and exactly 45 minutes otherwise.
C20_Original ==
  (card # <<>> /\ card[1].isOverUtilized) =>
    /\ card[1].waitTimesMin
         = CountedGaps(card[1].sessions, FeatureDenials(data[1], card[1].feature))
    /\ card[1].annualWaitLost
         = card[1].annualizedDenials * MedianOr45(card[1].waitTimesMin)

\* C20: for an over-utilized feature a gap is counted only if it lies in
\* (0, 240] minutes, and the wait per denial that enters the
\* productivity-loss estimate is 10 minutes more than the middle gap (index
\* floor(n / 2) of the n gaps in ascending order) when at least 3 are counted,
\* and 10 minutes more than 45 minutes otherwise.
C20_WaitPerDenial ==
  (card # <<>> /\ card[1].isOverUtilized) =>
    /\ card[1].waitTimesMin
         = CountedGaps(card[1].sessions, FeatureDenials(data[1], card[1].feature))
    /\ card[1].medianWaitMin = MedianOr45(card[1].waitTimesMin)
    /\ card[1].effectiveWaitMin = MedianOr45(card[1].waitTimesMin) + 10 * 60
    /\ card[1].annualWaitLost
         = card[1].annualizedDenials * (MedianOr45(card[1].waitTimesMin) + 10 * 60)

\* C20 witness: an over-utilized feature with six denials of which four have
\* a counted gap, of 60, 15, 240 and 149.75 minutes in this order, one a gap
\* to the next day and one no date; the wait per denial is 159.75 minutes.
C20_Witness ==
  /\ card # <<>>
  /\ card[1].isOverUtilized
  /\ Len(FeatureDenials(data[1], card[1].feature)) = 6
  /\ card[1].waitTimesMin = <<60 * 60, 15 * 60, 240 * 60, 8985>>
  /\ card[1].effectiveWaitMin = 9585
  /\ card[1].annualizedDenials > 0

\* the user, host and feature of a session or of an event
TripleOf(e) == <<e.user, e.host, e.feature>>

\* C27: the user, host and feature of every published session are those of
\* the IN event that closed it as well as of the OUT event that opened it:
\* checkouts of different (user, host, feature) triples never share an entry
\* of the open-session map, also when a host or a feature contains ':'.
C27_SessionOfOneTriple ==
  [][(NewIn /\ Len(sessions') = Len(sessions) + 1)
       => /\ TripleOf(Last(sessions')) = TripleOf(NewEntry)
          /\ TripleOf(Last(sessions')) = TripleOf(LastOut(KeyOf(NewEntry)))]_vars

\* the running sums of a sweep are never negative and end at zero
SweepBalanced(sums) ==
  /\ \A k \in 1..Len(sums) : sums[k] >= 0
  /\ sums # <<>> => sums[Len(sums)] = 0

\* C28: in the concurrency sweep over the sessions of a log, and in that over
\* the sessions of one feature, the running sum is never negative after an
\* event and is zero after the last one, also when a session lasts no time or
\* ends at the instant another starts.
C28_SweepBalanced ==
  /\ data # <<>> =>
       SweepBalanced(runningSums(sortedEvents(validSessions(data[1].sessions))))
  /\ card # <<>> => SweepBalanced(runningSums(card[1].events))

\* C28 witness: the card of a feature with a session of no time listed before
\* two sessions that end at the instant it starts.
C28_Witness ==
  /\ card # <<>>
  /\ Len(card[1].sessions) = 3
  /\ card[1].sessions[1].duration.v = 0
  /\ card[1].sessions[2].end.t = card[1].sessions[1].start.t
  /\ card[1].sessions[3].end.t = card[1].sessions[1].start.t
  /\ card[1].sessions[2].duration.v > 0
  /\ card[1].sessions[3].duration.v > 0
  /\ card[1].featurePeak = 3

\* a load callback runs in this step
LoadCompletes == \E i \in 1..Len(loads) : ~loads[i].done /\ loads'[i].done

\* C30: when loads overlap, the data shown once all of them have completed
\* is the parse of the log requested last, and the parsing indicator stays
\* on while a load is still pending.
C30_LatestLoadShown ==
  [][LoadCompletes
       => /\ isParsing' = (\E i \in 1..Len(loads') : ~loads'[i].done)
          /\ (\A i \in 1..Len(loads') : loads'[i].done)
               => /\ data' # <<>>
                  /\ data'[1] = dashboardOf(loads'[Len(loads')].log, <<>>, data'[1].zone)]_vars

\* C23: after any addition, edit, duplication, deletion or import, every
\* MAX or RESERVE rule carries a count that is a positive integer.
C23_CountPositive ==
  \A i \in 1..Len(optRules) : optRules[i].type \in Counted => optRules[i].count >= 1

\* C24: the target kind of every rule is one of the four allowed values,
\* also for a rule imported from a line whose target-kind token is another.
C24_TargetKindAllowed ==
  \A i \in 1..Len(optRules) : optRules[i].targetType \in TargetTypes

\* a non-empty string without whitespace
Token(s) == s # <<>> /\ \A k \in 1..Len(s) : s[k] \notin Space \cup {NewLine}

\* the feature of a rule as the file names it
FeatureToken(r) ==
  IF r.versionFilter = <<>> THEN r.feature
  ELSE r.feature \o <<":","S","W","V","E","R","S","I","O","N","=">> \o r.versionFilter

\* the rule that importing the line of rule r gives, <<>> if it gives none
Reread(r) ==
  LET parts == splitSpaces(trim(ruleLine(r)))
  IN  IF trim(ruleLine(r)) # <<>> /\ isRule(parts) THEN <<ruleOfParts(parts)>> ELSE <<>>

\* C22: a MAX or RESERVE rule with a count of at least 1 and a non-empty,
\* whitespace-free feature and target is written as
\* <KIND> <count> <feature>[:SWVERSION=<v>] <targetKind> <target> and is read
\* back as the same rule; a rule of the four other kinds is written without
\* the count and read back likewise.
C22_RuleRoundTrip ==
  \A i \in 1..Len(optRules) :
    LET r == optRules[i]
    IN  (Token(r.feature) /\ Token(r.groupOrUser) /\ (r.type \in Counted => r.count >= 1))
          => /\ r.type \in Counted =>
                  /\ ruleLine(r) = join(<<r.type, numberText(r.count), FeatureToken(r),
                                          r.targetType, r.groupOrUser>>, <<" ">>)
                  /\ Reread(r) = <<r>>
             /\ r.type \in Uncounted =>
                  /\ ruleLine(r) = join(<<r.type, FeatureToken(r), r.targetType,
                                          r.groupOrUser>>, <<" ">>)
                  /\ Reread(r) = <<[r EXCEPT !.count = 1]>>

\* the rules, the count left out where the kind has none
RulesAsWritten(rules) ==
  [i \in 1..Len(rules) |->
     IF rules[i].type \in Counted THEN rules[i] ELSE [rules[i] EXCEPT !.count = 1]]

\* the groups as names with member sets
GroupsAsSets(groups) ==
  [i \in 1..Len(groups) |-> [name |-> groups[i].name, users |-> Range(groups[i].users)]]

\* C21: importing the exported file into the model it was exported from
\* gives the same global timeout (flag and seconds), per-feature timeouts,
\* groups (name and member set) and rules.
C21_ExportImport ==
  [][importOptionsFile(generateOptionsFile)
       => /\ optTimeoutEnabled' = optTimeoutEnabled
          /\ optTimeout' = optTimeout
          /\ optFeatureTimeouts' = optFeatureTimeouts
          /\ GroupsAsSets(optGroups') = GroupsAsSets(optGroups)
          /\ RulesAsWritten(optRules') = RulesAsWritten(optRules)]_vars

\* the parts of the directive lines of a file
PartsOf(text) == partsOfAll(directiveLines(text))

\* the users a file names: the members of its GROUP lines and the targets
\* of its rules on a USER
NamedUsers(text) ==
  Range(membersOf(newGroups(PartsOf(text))))
    \cup {newRules(PartsOf(text))[i].groupOrUser :
            i \in {k \in 1..Len(newRules(PartsOf(text))) :
                     newRules(PartsOf(text))[k].targetType = USER}}

NoDuplicates(s) == \A i, j \in 1..Len(s) : s[i] = s[j] => i = j

\* C25: after an import every user that the file names as the member of a
\* GROUP or as the target of a USER rule and that is no user of the log is
\* in the custom list; the names it held are kept and none is there twice.
C25_NamedUsersKept ==
  [][\A text \in OptionsTexts :
       importOptionsFile(text)
         => /\ \A u \in NamedUsers(text) : u \notin logUsers => u \in Range(customUsers')
            /\ Range(customUsers) \subseteq Range(customUsers')
            /\ NoDuplicates(customUsers')]_vars

\* C26: importing a file of comments, blank lines and unrecognized
\* directives only leaves the whole options model as it was.
C26_CommentsChangeNothing ==
  [][importOptionsFile(CommentsOnly) => UNCHANGED optVars]_vars

\* C29: after an import the groups, the rules and the per-feature timeouts
\* are exactly those read from the file, also when it has none of a kind.
C29_ImportReplaces ==
  [][\A text \in OptionsTexts :
       importOptionsFile(text)
         => /\ optGroups' = newGroups(PartsOf(text))
            /\ optRules' = newRules(PartsOf(text))
            /\ optFeatureTimeouts' = newFeatureTimeouts(PartsOf(text))]_vars

====
